---- MODULE Spec2Model ----
(***************************************************************************)
(* State-machine model of python/ipf_extractor_optimized.py: the two-phase *)
(* parallel IPF extractor (Phase A decrypts the local-header filenames,    *)
(* Phase B extracts the payloads through one shared ZipFile).              *)
(*                                                                         *)
(* Text is a sequence of code points and a byte string is a sequence of    *)
(* byte values, so "x.dds" is <<120, 46, 100, 100, 115>>.  Python's        *)
(* 0-based entry index is kept in FileInfo.index; the archive itself is a  *)
(* 1-based TLA+ sequence, so entry index i is archive[i + 1].              *)
(***************************************************************************)
EXTENDS Integers, Sequences, FiniteSets, TLC

\* ------------------------------------------------------------------ bounds
\* entries of an archive, and worker threads of a pool
MaxEntries == 2
MaxWorkers == 2
\* safe names in a list handed to the collision loop on its own
MaxNames == 3

\* ------------------------------------------------------- program constants
\* name_len > 512 is rejected (line 119)
MaxNameLen == 512
\* f"file_{index:04d}.bin": minimum field width of the index (lines 154, 168)
PadWidth == 4

\* --------------------------------------------------------------- text help
Range(s) == {s[k] : k \in 1..Len(s)}

RECURSIVE Digits(_)
\* str(n) for n >= 0, as code points ('0' is 48)
Digits(n) == IF n < 10 THEN <<48 + n>> ELSE Digits(n \div 10) \o <<48 + (n % 10)>>

\* the ":04d" of the format specification: zero-pad on the left to PadWidth
ZeroPad(s) == [k \in 1..(IF Len(s) >= PadWidth THEN 0 ELSE PadWidth - Len(s)) |-> 48] \o s

\* f"file_{index:04d}.bin"
SyntheticName(index) ==
    <<102, 105, 108, 101, 95>> \o ZeroPad(Digits(index)) \o <<46, 98, 105, 110>>

IsAlnum(c) == (c >= 48 /\ c <= 57) \/ (c >= 65 /\ c <= 90) \/ (c >= 97 /\ c <= 122)

\* "x.dds", "x_1.dds": decrypted local-header filenames the archives carry
NameX == <<120, 46, 100, 100, 115>>
NameX1 == <<120, 95, 49, 46, 100, 100, 115>>
\* "x_1_1.dds", "x", "x_1": further safe names for the collision loop
NameX11 == <<120, 95, 49, 95, 49, 46, 100, 100, 115>>
NameBare == <<120>>
NameBare1 == <<120, 95, 49>>
SafeNames == {NameX, NameX1, NameX11, NameBare, NameBare1}

\* ------------------------------------------------ filename text decoding
\* bytes.decode('utf-8'): strict, raises on any malformed sequence
IsCont(c) == c >= 128 /\ c <= 191

RECURSIVE Utf8Valid(_, _)
Utf8Valid(b, i) ==
    IF i > Len(b) THEN TRUE
    ELSE LET c == b[i] IN
         IF c < 128 THEN Utf8Valid(b, i + 1)
         ELSE IF c >= 194 /\ c <= 223
              THEN i + 1 <= Len(b) /\ IsCont(b[i + 1]) /\ Utf8Valid(b, i + 2)
         ELSE IF c >= 224 /\ c <= 239
              THEN /\ i + 2 <= Len(b) /\ IsCont(b[i + 1]) /\ IsCont(b[i + 2])
                   /\ (c = 224 => b[i + 1] >= 160)
                   /\ (c = 237 => b[i + 1] <= 159)
                   /\ Utf8Valid(b, i + 3)
         ELSE IF c >= 240 /\ c <= 244
              THEN /\ i + 3 <= Len(b)
                   /\ IsCont(b[i + 1]) /\ IsCont(b[i + 2]) /\ IsCont(b[i + 3])
                   /\ (c = 240 => b[i + 1] >= 144)
                   /\ (c = 244 => b[i + 1] <= 143)
                   /\ Utf8Valid(b, i + 4)
         ELSE FALSE

RECURSIVE Utf8Text(_, _)
\* the code points of a valid UTF-8 byte string, from position i on
Utf8Text(b, i) ==
    IF i > Len(b) THEN <<>>
    ELSE LET c == b[i] IN
         IF c < 128 THEN <<c>> \o Utf8Text(b, i + 1)
         ELSE IF c <= 223
              THEN <<(c - 192) * 64 + (b[i + 1] - 128)>> \o Utf8Text(b, i + 2)
         ELSE IF c <= 239
              THEN <<(c - 224) * 4096 + (b[i + 1] - 128) * 64 + (b[i + 2] - 128)>>
                   \o Utf8Text(b, i + 3)
         ELSE <<(c - 240) * 262144 + (b[i + 1] - 128) * 4096
                  + (b[i + 2] - 128) * 64 + (b[i + 3] - 128)>> \o Utf8Text(b, i + 4)

\* cp1252: 0x80..0x9F are remapped, five of them are undefined (decode raises)
Cp1252Undefined == {129, 141, 143, 144, 157}
Cp1252High ==
    <<8364, 0, 8218, 402, 8222, 8230, 8224, 8225, 710, 8240, 352, 8249, 338, 0,
      381, 0, 0, 8216, 8217, 8220, 8221, 8226, 8211, 8212, 732, 8482, 353, 8250,
      339, 0, 382, 376>>
Cp1252Char(c) == IF c >= 128 /\ c <= 159 THEN Cp1252High[c - 127] ELSE c

\* One attempt of the loop at lines 135-142: decrypted_name.decode(encoding).
\* ok = FALSE stands for the exception the bare except swallows.
TryDecode(encoding, b) ==
    CASE encoding = "utf-8" ->
           IF Utf8Valid(b, 1) THEN [ok |-> TRUE, text |-> Utf8Text(b, 1)]
           ELSE [ok |-> FALSE, text |-> <<>>]
      [] encoding = "latin-1" -> [ok |-> TRUE, text |-> b]
      [] encoding = "cp1252" ->
           IF Range(b) \cap Cp1252Undefined = {}
           THEN [ok |-> TRUE, text |-> [k \in 1..Len(b) |-> Cp1252Char(b[k])]]
           ELSE [ok |-> FALSE, text |-> <<>>]
      [] encoding = "ascii" ->
           IF \A k \in 1..Len(b) : b[k] < 128 THEN [ok |-> TRUE, text |-> b]
           ELSE [ok |-> FALSE, text |-> <<>>]

\* a filter that lets every character through
Printable_Any(text) == TRUE

\* all(32 <= ord(c) <= 126 or c in '._-/' for c in decoded)   (line 138)
Printable(text) ==
    \A k \in 1..Len(text) :
        (text[k] >= 32 /\ text[k] <= 126) \/ text[k] \in {46, 95, 45, 47}

Encodings == <<"utf-8", "latin-1", "cp1252", "ascii">>

\* `if decoded and all(...)`: the attempt is accepted
Accepted(encoding, b) ==
    LET d == TryDecode(encoding, b) IN d.ok /\ d.text # <<>> /\ Printable(d.text)

RECURSIVE FilteredDecode(_, _)
\* the for loop of lines 135-142 from encoding number k on; <<>> is None
FilteredDecode(b, k) ==
    IF k > Len(Encodings) THEN <<>>
    ELSE IF Accepted(Encodings[k], b) THEN TryDecode(Encodings[k], b).text
    ELSE FilteredDecode(b, k + 1)

\* cp932 lead bytes whose whole row is unmapped in the codec's table
Cp932EmptyRows == {133, 134, 235, 236, 239}
Cp932Lead(c) == (c >= 129 /\ c <= 159) \/ (c >= 224 /\ c <= 252)
Cp932Trail(c) == c >= 64 /\ c <= 252 /\ c # 127

RECURSIVE Cp932Ignore(_, _)
\* decrypted_name.decode('cp932', errors='ignore') (line 147): a byte that
\* starts no mapped character is skipped alone.  A double-byte character is
\* kept as the number 65536 + 256 * lead + trail (its identity, not its
\* Unicode code point: the codec's table is not reproduced).
Cp932Ignore(b, i) ==
    IF i > Len(b) THEN <<>>
    ELSE LET c == b[i] IN
         IF c <= 128 THEN <<c>> \o Cp932Ignore(b, i + 1)
         ELSE IF c = 160 THEN <<63728>> \o Cp932Ignore(b, i + 1)
         ELSE IF c >= 161 /\ c <= 223 THEN <<65377 + (c - 161)>> \o Cp932Ignore(b, i + 1)
         ELSE IF c >= 253 THEN <<63729 + (c - 253)>> \o Cp932Ignore(b, i + 1)
         ELSE IF /\ Cp932Lead(c) /\ c \notin Cp932EmptyRows
                 /\ i + 1 <= Len(b) /\ Cp932Trail(b[i + 1])
              THEN <<65536 + 256 * c + b[i + 1]>> \o Cp932Ignore(b, i + 2)
         ELSE Cp932Ignore(b, i + 1)

\* lines 133-151: the decoded name, <<>> when it is None
DecodedName(b) ==
    LET d == FilteredDecode(b, 1) IN
    IF d # <<>> THEN d
    ELSE LET j == Cp932Ignore(b, 1) IN
         IF j # <<>> /\ Len(j) > 1 THEN j ELSE <<>>

\* ------------------------------------------------------------ sanitizer
RECURSIVE CollapseUnderscores(_)
CollapseUnderscores(t) ==
    IF Len(t) < 2 THEN t
    ELSE IF t[1] = 95 /\ t[2] = 95 THEN CollapseUnderscores(Tail(t))
    ELSE <<t[1]>> \o CollapseUnderscores(Tail(t))

RECURSIVE TrimLeft(_)
TrimLeft(t) == IF t # <<>> /\ t[1] \in {95, 46} THEN TrimLeft(Tail(t)) ELSE t

RECURSIVE TrimRight(_)
TrimRight(t) ==
    IF t # <<>> /\ t[Len(t)] \in {95, 46} THEN TrimRight(SubSeq(t, 1, Len(t) - 1)) ELSE t

\* make_safe_filename (imported at line 15 from ipf_extractor, which is not
\* among the sources): replace every character outside alnum . _ - by _,
\* collapse runs of _, trim leading and trailing _ and ., and fall back to a
\* synthetic name when nothing is left.
make_safe_filename(name) ==
    LET Replaced == [k \in 1..Len(name) |->
                        IF IsAlnum(name[k]) \/ name[k] \in {46, 95, 45}
                        THEN name[k] ELSE 95]
    IN \* every intermediate text is computed once and then named
       CHOOSE safe \in
           {IF trimmed = <<>> THEN SyntheticName(0) ELSE trimmed :
               trimmed \in {TrimRight(left) :
                   left \in {TrimLeft(collapsed) :
                       collapsed \in {CollapseUnderscores(replaced) :
                           replaced \in {Replaced}}}}} : TRUE

\* ------------------------------------------------------- the archive
\* What a ZIP member's payload does when Phase B streams it through
\* ZipFile.open:  "ok" inflates and matches its CRC-32; "unsupported" has a
\* compression method zipfile refuses when the member is opened; "corrupt"
\* makes the decompressor raise in the middle of the stream; "crc" inflates
\* but differs from the central directory's crc32.
Payloads == {"ok", "unsupported", "corrupt", "crc"}

\* One central-directory entry with what its local header holds.
\* read: "ok", "short" (the 2 length bytes or the name bytes are cut off by
\* the end of the file) or "exc" (open/seek/read raises).  name_len is the
\* local header's filename length field; name is the decrypted filename
\* (not read when name_len is out of range).  An entry whose filename task
\* returns None never reaches Phase B, so one payload stands for all there;
\* every payload occurs under the name x.dds.
Entries ==
    [read : {"ok"}, name_len : {0, MaxNameLen + 1}, name : {<<>>}, payload : {"ok"}]
    \cup [read : {"ok"}, name_len : {Len(NameX)}, name : {NameX}, payload : Payloads]
    \cup [read : {"ok"}, name_len : {Len(NameX1)}, name : {NameX1}, payload : {"ok"}]
    \cup [read : {"short"}, name_len : {0}, name : {<<>>}, payload : {"ok"}]
    \cup [read : {"exc"}, name_len : {0}, name : {<<>>}, payload : {"ok", "corrupt"}]

RECURSIVE SeqsUpTo(_, _)
\* all sequences over S of length at most n
SeqsUpTo(S, n) ==
    IF n = 0 THEN {<<>>}
    ELSE LET shorter == SeqsUpTo(S, n - 1) IN
         shorter \cup {Append(q, x) : q \in {r \in shorter : Len(r) = n - 1}, x \in S}

VARIABLES
    archive,          \* the entries of the IPF file, in central-directory order
    max_workers,      \* the worker count of both pools
    pc,               \* where the main thread is in process_ipf_file_optimized
    taskA,            \* Phase A: state of the filename task of each entry
    results,          \* process_all_filenames: results, in collection order
    completed_count,  \* process_all_filenames: completed_count
    processed_files,  \* what process_all_filenames returned
    extraction_tasks, \* extract_files_optimized: (unique FileInfo, output_path)
    taskB,            \* Phase B: state of each extraction task
    outdir,           \* the output directory: path -> [index, complete]
    extracted_count,  \* self._extracted_count, updated under self._lock
    success_count,    \* extract_files_optimized: success_count
    success,          \* what extract_files_optimized returned
    result,           \* what process_ipf_file_optimized returned
    workers_arg,      \* the max_workers argument: <<>> is None, <<n>> is n
    cpu_count,        \* multiprocessing.cpu_count(); 0 while it is not called
    handle,           \* the file handles the workers of one phase read through
    cipher,           \* the cipher states of concurrent decryptions
    decode,           \* the decoding loop of one filename
    progress,         \* one ProgressLogger and the clock it reads
    processors,       \* ParallelFilenameProcessor instances running at once
    cli               \* main(): the command line and how far it is parsed

\* the run of process_ipf_file_optimized
runVars == <<archive, max_workers, pc, taskA, results, completed_count,
             processed_files, extraction_tasks, taskB, outdir, extracted_count,
             success_count, success, result, workers_arg, cpu_count>>

\* the parts of the program that are also checked on their own
unitVars == <<handle, cipher, decode, progress, processors, cli>>

vars == <<runVars, unitVars>>

\* ------------------------------------------------ Phase A: one filename
\* FileInfo(zip_info, decrypted_name, safe_name, index); zip_info is the
\* entry archive[index + 1], and a decrypted_name of <<>> is None.
FileInfo(decrypted_name, safe_name, index) ==
    [decrypted_name |-> decrypted_name, safe_name |-> safe_name, index |-> index]

\* a handler that gives the entry up, as the early returns do
OnException_Dropped(index) == <<>>

\* lines 163-170: the handler of _process_single_filename
OnException(index) == <<FileInfo(<<>>, SyntheticName(index), index)>>

\* _process_single_filename: <<>> is the None it returns, <<fi>> a FileInfo
process_single_filename(e, index) ==
    IF e.read = "exc" THEN OnException(index)
    ELSE IF e.read = "short" THEN <<>>
    ELSE IF e.name_len = 0 \/ e.name_len > MaxNameLen THEN <<>>
    ELSE \* decoded_name is computed once and then named
         CHOOSE r \in
             {<<FileInfo(decoded_name,
                         IF decoded_name # <<>> THEN make_safe_filename(decoded_name)
                         ELSE SyntheticName(index),
                         index)>> : decoded_name \in {DecodedName(e.name)}} : TRUE

RECURSIVE InsertByIndex(_, _)
InsertByIndex(sorted, x) ==
    IF sorted = <<>> THEN <<x>>
    ELSE IF x.index < sorted[1].index THEN <<x>> \o sorted
    ELSE <<sorted[1]>> \o InsertByIndex(Tail(sorted), x)

\* a return without the sort: results stay in collection order
SortByIndex_Unsorted(list) == list

RECURSIVE SortByIndex(_)
\* results.sort(key=lambda x: x.index): a stable sort
SortByIndex(list) ==
    IF list = <<>> THEN <<>>
    ELSE InsertByIndex(SortByIndex(SubSeq(list, 1, Len(list) - 1)), list[Len(list)])

\* ------------------------------------------- collision-free output paths
LastIndexOf(p, c) ==
    LET at == {k \in 1..Len(p) : p[k] = c} IN
    IF at = {} THEN 0 ELSE CHOOSE k \in at : \A j \in at : j <= k

\* os.path.splitext: split at the last dot of the last path component, unless
\* that component has only leading dots before it
splitext(p) ==
    LET sep == LastIndexOf(p, 47)
        dot == LastIndexOf(p, 46)
    IN IF dot > sep /\ \E k \in (sep + 1)..(dot - 1) : p[k] # 46
       THEN <<SubSeq(p, 1, dot - 1), SubSeq(p, dot, Len(p))>>
       ELSE <<p, <<>>>>

\* a resolver that tries one suffix and does not look again
NextFreeName_Once(safe_name, name, ext, counter, used_names) ==
    IF safe_name \in used_names
    THEN name \o <<95>> \o Digits(counter) \o ext
    ELSE safe_name

RECURSIVE NextFreeName(_, _, _, _, _)
\* the while loop of lines 290-292
NextFreeName(safe_name, name, ext, counter, used_names) ==
    IF safe_name \in used_names
    THEN NextFreeName(name \o <<95>> \o Digits(counter) \o ext, name, ext,
                      counter + 1, used_names)
    ELSE safe_name

\* a resolver that keeps the safe name as it is
UniqueName_Unchanged(base_name, used_names) == base_name

\* a resolver whose counter starts at 2
UniqueName_FromTwo(base_name, used_names) ==
    LET parts == splitext(base_name) IN
    NextFreeName(base_name, parts[1], parts[2], 2, used_names)

\* lines 285-292: the name one entry gets, given the names already handed out
UniqueName(base_name, used_names) ==
    LET parts == splitext(base_name) IN
    NextFreeName(base_name, parts[1], parts[2], 1, used_names)

\* "out": the output directory of the run
OutputDir == <<111, 117, 116>>
\* os.path.join(output_dir, safe_name) for a relative safe_name
JoinPath(dir, leaf) == dir \o <<47>> \o leaf

RECURSIVE AssignPaths(_, _, _)
\* the for loop of lines 283-299 from file_infos[k] on
AssignPaths(file_infos, k, used_names) ==
    IF k > Len(file_infos) THEN <<>>
    ELSE LET safe_name == UniqueName(file_infos[k].safe_name, used_names) IN
         <<[file_info |-> [file_infos[k] EXCEPT !.safe_name = safe_name],
            output_path |-> JoinPath(OutputDir, safe_name)]>>
         \o AssignPaths(file_infos, k + 1, used_names \cup {safe_name})

\* ----------------------------------------------------------- the run
\* no part is being checked on its own
UnitsIdle ==
    /\ handle = <<>> /\ cipher = <<>> /\ decode = <<>> /\ progress = <<>>
    /\ processors = <<>> /\ cli = <<>>

Init ==
    /\ archive \in SeqsUpTo(Entries, MaxEntries)
    /\ max_workers \in 1..MaxWorkers
    /\ pc = "start"
    /\ taskA = [i \in 1..Len(archive) |-> "unsubmitted"]
    /\ results = <<>>
    /\ completed_count = 0
    /\ processed_files = <<>>
    /\ extraction_tasks = <<>>
    /\ taskB = <<>>
    /\ outdir = <<>>
    /\ extracted_count = 0
    /\ success_count = 0
    /\ success = "none"
    /\ result = "none"
    /\ workers_arg = <<max_workers>>
    /\ cpu_count = 0
    /\ UnitsIdle

\* a pool that starts a thread for every queued task
PoolCanStart_Unbounded(task, i, running) ==
    /\ task[i] = "queued"
    /\ \A j \in 1..(i - 1) : task[j] # "queued"

\* a pool of max_workers threads runs at most that many tasks at once and
\* takes them from its queue in submission order
PoolCanStart(task, i, running) ==
    /\ task[i] = "queued"
    /\ \A j \in 1..(i - 1) : task[j] # "queued"
    /\ Cardinality({j \in DOMAIN task : task[j] \in running}) < max_workers

\* lines 352-368: the file must exist and the disk must have room
Precheck ==
    /\ pc = "start"
    /\ \E outcome \in {"ok", "missing", "nospace"} :
          IF outcome = "ok"
          THEN pc' = "read" /\ result' = result
          ELSE pc' = "done" /\ result' = "False"
    /\ UNCHANGED <<workers_arg, cpu_count, unitVars>>
    /\ UNCHANGED <<archive, max_workers, taskA, results, completed_count,
                   processed_files, extraction_tasks, taskB, outdir,
                   extracted_count, success_count, success>>

\* lines 370-376 and 389-391: read the central directory; a file that cannot
\* be opened or parsed raises, and the handler at line 389 returns False.
\* Then lines 174-191: every filename task is submitted.
ReadStructure ==
    /\ pc = "read"
    /\ \E readable \in BOOLEAN :
          IF readable
          THEN /\ pc' = "phaseA"
               /\ taskA' = [i \in 1..Len(archive) |-> "queued"]
               /\ result' = result
          ELSE /\ pc' = "done"
               /\ result' = "False"
               /\ taskA' = taskA
    /\ UNCHANGED <<workers_arg, cpu_count, unitVars>>
    /\ UNCHANGED <<archive, max_workers, results, completed_count,
                   processed_files, extraction_tasks, taskB, outdir,
                   extracted_count, success_count, success>>

\* a pool thread takes a filename task
StartA(i) ==
    /\ pc = "phaseA"
    /\ PoolCanStart(taskA, i, {"running"})
    /\ taskA' = [taskA EXCEPT ![i] = "running"]
    /\ UNCHANGED <<workers_arg, cpu_count, unitVars>>
    /\ UNCHANGED <<archive, max_workers, pc, results, completed_count,
                   processed_files, extraction_tasks, taskB, outdir,
                   extracted_count, success_count, success, result>>

\* _process_single_filename returns: the future is done
FinishA(i) ==
    /\ pc = "phaseA"
    /\ taskA[i] = "running"
    /\ taskA' = [taskA EXCEPT ![i] = "finished"]
    /\ UNCHANGED <<workers_arg, cpu_count, unitVars>>
    /\ UNCHANGED <<archive, max_workers, pc, results, completed_count,
                   processed_files, extraction_tasks, taskB, outdir,
                   extracted_count, success_count, success, result>>

\* lines 194-198: as_completed yields a finished future; a None is skipped
CollectA(i) ==
    /\ pc = "phaseA"
    /\ taskA[i] = "finished"
    /\ taskA' = [taskA EXCEPT ![i] = "collected"]
    /\ LET r == process_single_filename(archive[i], i - 1) IN
          /\ results' = results \o r
          /\ completed_count' = completed_count + Len(r)
    /\ UNCHANGED <<workers_arg, cpu_count, unitVars>>
    /\ UNCHANGED <<archive, max_workers, pc, processed_files, extraction_tasks,
                   taskB, outdir, extracted_count, success_count, success, result>>

\* a loop that is left as soon as one future has been yielded
PhaseAComplete_First == \E i \in DOMAIN taskA : taskA[i] = "collected"

\* the as_completed loop and the with block of lines 186-207 are left when
\* every submitted future has been yielded
PhaseAComplete == \A i \in DOMAIN taskA : taskA[i] = "collected"

\* lines 209-217: sort by index and return to process_ipf_file_optimized
ReturnA ==
    /\ pc = "phaseA"
    /\ PhaseAComplete
    /\ processed_files' = SortByIndex(results)
    /\ pc' = "prepare"
    /\ UNCHANGED <<workers_arg, cpu_count, unitVars>>
    /\ UNCHANGED <<archive, max_workers, taskA, results, completed_count,
                   extraction_tasks, taskB, outdir, extracted_count,
                   success_count, success, result>>

\* lines 269-299: reset the counters, give every entry its output path
PreparePaths ==
    /\ pc = "prepare"
    /\ extracted_count' = 0
    /\ extraction_tasks' = AssignPaths(processed_files, 1, {})
    /\ pc' = "reopen"
    /\ UNCHANGED <<workers_arg, cpu_count, unitVars>>
    /\ UNCHANGED <<archive, max_workers, taskA, results, completed_count,
                   processed_files, taskB, outdir, success_count, success, result>>

\* lines 301-317 and 328-330: reopen the archive and submit one task per
\* entry; when the open or the ZipFile constructor raises, return False
ReopenArchive ==
    /\ pc = "reopen"
    /\ \E readable \in BOOLEAN :
          IF readable
          THEN /\ taskB' = [t \in 1..Len(extraction_tasks) |-> "queued"]
               /\ success_count' = 0
               /\ pc' = "phaseB"
               /\ success' = success
          ELSE /\ success' = "False"
               /\ pc' = "finish"
               /\ UNCHANGED <<taskB, success_count>>
    /\ UNCHANGED <<workers_arg, cpu_count, unitVars>>
    /\ UNCHANGED <<archive, max_workers, taskA, results, completed_count,
                   processed_files, extraction_tasks, outdir, extracted_count,
                   result>>

\* the entry an extraction task works on
EntryOf(t) == archive[extraction_tasks[t].file_info.index + 1]

\* open(output_path, 'wb') creates or truncates the file
CreateFile(dir, path, index) ==
    [q \in DOMAIN dir \cup {path} |->
        IF q = path THEN [index |-> index, complete |-> FALSE] ELSE dir[q]]

\* the read loop wrote every chunk of the member
CompleteFile(dir, path, index) ==
    [q \in DOMAIN dir \cup {path} |->
        IF q = path THEN [index |-> index, complete |-> TRUE] ELSE dir[q]]

\* lines 237-240: a pool thread takes an extraction task, opens the member
\* (zipfile raises for a compression method it does not support) and then
\* the output file
StartB(t) ==
    /\ pc = "phaseB"
    /\ PoolCanStart(taskB, t, {"streaming", "counting"})
    /\ IF EntryOf(t).payload = "unsupported"
       THEN /\ taskB' = [taskB EXCEPT ![t] = "failed"]
            /\ outdir' = outdir
       ELSE /\ taskB' = [taskB EXCEPT ![t] = "streaming"]
            /\ outdir' = CreateFile(outdir, extraction_tasks[t].output_path,
                                    extraction_tasks[t].file_info.index)
    /\ UNCHANGED <<workers_arg, cpu_count, unitVars>>
    /\ UNCHANGED <<archive, max_workers, pc, taskA, results, completed_count,
                   processed_files, extraction_tasks, extracted_count,
                   success_count, success, result>>

\* whether the read loop of lines 244-249 ends without an exception: the
\* decompressor raises on a corrupt stream, and ZipExtFile raises BadZipFile
\* ("Bad CRC-32") on the read that reaches the end of a member whose data
\* does not match the directory's crc32, before that read returns its bytes
StreamCompletes(e) == e.payload = "ok"

\* lines 241-249 and 260-263: stream the member into the output file
StreamB(t) ==
    /\ pc = "phaseB"
    /\ taskB[t] = "streaming"
    /\ IF StreamCompletes(EntryOf(t))
       THEN /\ taskB' = [taskB EXCEPT ![t] = "counting"]
            /\ outdir' = CompleteFile(outdir, extraction_tasks[t].output_path,
                                      extraction_tasks[t].file_info.index)
       ELSE /\ taskB' = [taskB EXCEPT ![t] = "failed"]
            /\ outdir' = outdir
    /\ UNCHANGED <<workers_arg, cpu_count, unitVars>>
    /\ UNCHANGED <<archive, max_workers, pc, taskA, results, completed_count,
                   processed_files, extraction_tasks, extracted_count,
                   success_count, success, result>>

\* lines 251-258: count the entry under the lock and return True
CountB(t) ==
    /\ pc = "phaseB"
    /\ taskB[t] = "counting"
    /\ extracted_count' = extracted_count + 1
    /\ taskB' = [taskB EXCEPT ![t] = "succeeded"]
    /\ UNCHANGED <<workers_arg, cpu_count, unitVars>>
    /\ UNCHANGED <<archive, max_workers, pc, taskA, results, completed_count,
                   processed_files, extraction_tasks, outdir, success_count,
                   success, result>>

\* a collector that counts every finished task
Counted_Always(state) == 1

\* what the collector adds to success_count for a finished task (lines 321-323)
Counted(state) == IF state = "succeeded" THEN 1 ELSE 0

\* lines 320-326: as_completed yields a finished extraction future
CollectB(t) ==
    /\ pc = "phaseB"
    /\ taskB[t] \in {"succeeded", "failed"}
    /\ success_count' = success_count + Counted(taskB[t])
    /\ taskB' = [taskB EXCEPT ![t] = IF taskB[t] = "succeeded" THEN "collected_ok"
                                     ELSE "collected_failed"]
    /\ UNCHANGED <<workers_arg, cpu_count, unitVars>>
    /\ UNCHANGED <<archive, max_workers, pc, taskA, results, completed_count,
                   processed_files, extraction_tasks, outdir, extracted_count,
                   success, result>>

\* a loop that is left only when every task succeeded
PhaseBComplete_AllOk == \A t \in DOMAIN taskB : taskB[t] = "collected_ok"

\* the as_completed loop of lines 320-326 is left when every submitted
\* future has been yielded
PhaseBComplete ==
    \A t \in DOMAIN taskB : taskB[t] \in {"collected_ok", "collected_failed"}

\* lines 332-343: the pool and the archive are closed; report
ReturnB ==
    /\ pc = "phaseB"
    /\ PhaseBComplete
    /\ success' = IF success_count = Len(processed_files) THEN "True" ELSE "False"
    /\ pc' = "finish"
    /\ UNCHANGED <<workers_arg, cpu_count, unitVars>>
    /\ UNCHANGED <<archive, max_workers, taskA, results, completed_count,
                   processed_files, extraction_tasks, taskB, outdir,
                   extracted_count, success_count, result>>

\* what process_ipf_file_optimized returns once extract_files_optimized has
\* returned (lines 384-387)
RunResult(extraction_success) == "True"

Finish ==
    /\ pc = "finish"
    /\ result' = RunResult(success)
    /\ pc' = "done"
    /\ UNCHANGED <<workers_arg, cpu_count, unitVars>>
    /\ UNCHANGED <<archive, max_workers, taskA, results, completed_count,
                   processed_files, extraction_tasks, taskB, outdir,
                   extracted_count, success_count, success>>

Next ==
    \/ Precheck
    \/ ReadStructure
    \/ \E i \in DOMAIN taskA : StartA(i)
    \/ \E i \in DOMAIN taskA : FinishA(i)
    \/ \E i \in DOMAIN taskA : CollectA(i)
    \/ ReturnA
    \/ PreparePaths
    \/ ReopenArchive
    \/ \E t \in DOMAIN taskB : StartB(t)
    \/ \E t \in DOMAIN taskB : StreamB(t)
    \/ \E t \in DOMAIN taskB : CountB(t)
    \/ \E t \in DOMAIN taskB : CollectB(t)
    \/ ReturnB
    \/ Finish

Spec == Init /\ [][Next]_vars

\* ------------------------------------------- the collision loop on its own
\* The lists of FileInfo that process_all_filenames can return for entries
\* whose names decode to the safe names of SafeNames.
FileInfoLists ==
    {[k \in 1..Len(names) |-> FileInfo(names[k], names[k], k - 1)] :
        names \in SeqsUpTo(SafeNames, MaxNames)}

InitNames ==
    /\ archive = <<>>
    /\ max_workers \in 1..MaxWorkers
    /\ pc = "prepare"
    /\ taskA = <<>>
    /\ results = <<>>
    /\ completed_count = 0
    /\ processed_files \in FileInfoLists
    /\ extraction_tasks = <<>>
    /\ taskB = <<>>
    /\ outdir = <<>>
    /\ extracted_count = 0
    /\ success_count = 0
    /\ success = "none"
    /\ result = "none"
    /\ workers_arg = <<max_workers>>
    /\ cpu_count = 0
    /\ UnitsIdle

\* a set seeded with the safe names of the whole list, later entries included
UsedNames_WholeList ==
    {extraction_tasks[t].file_info.safe_name : t \in DOMAIN extraction_tasks}
        \cup {processed_files[k].safe_name : k \in DOMAIN processed_files}

\* used_names after the iterations done so far
UsedNames == {extraction_tasks[t].file_info.safe_name : t \in DOMAIN extraction_tasks}

\* one iteration of the for loop of lines 283-299
AssignNext ==
    /\ pc = "prepare"
    /\ Len(extraction_tasks) < Len(processed_files)
    /\ LET file_info == processed_files[Len(extraction_tasks) + 1]
           safe_name == UniqueName(file_info.safe_name, UsedNames)
       IN extraction_tasks' =
             Append(extraction_tasks,
                    [file_info |-> [file_info EXCEPT !.safe_name = safe_name],
                     output_path |-> JoinPath(OutputDir, safe_name)])
    /\ UNCHANGED <<workers_arg, cpu_count, unitVars>>
    /\ UNCHANGED <<archive, max_workers, pc, taskA, results, completed_count,
                   processed_files, taskB, outdir, extracted_count,
                   success_count, success, result>>

\* the loop is over: every entry has its output path
AssignDone ==
    /\ pc = "prepare"
    /\ Len(extraction_tasks) = Len(processed_files)
    /\ pc' = "reopen"
    /\ UNCHANGED <<workers_arg, cpu_count, unitVars>>
    /\ UNCHANGED <<archive, max_workers, taskA, results, completed_count,
                   processed_files, extraction_tasks, taskB, outdir,
                   extracted_count, success_count, success, result>>

NextNames == AssignNext \/ AssignDone

SpecNames == InitNames /\ [][NextNames]_vars

\* ------------------------------------------------------------ reference
\* What the run computes when every task is taken in index order by one
\* thread: a function of the archive alone.
RECURSIVE RefInfos(_)
RefInfos(k) ==
    IF k > Len(archive) THEN <<>>
    ELSE process_single_filename(archive[k], k - 1) \o RefInfos(k + 1)

RefTasks == AssignPaths(RefInfos(1), 1, {})

RefOutdir ==
    LET written == {t \in DOMAIN RefTasks :
                       archive[RefTasks[t].file_info.index + 1].payload # "unsupported"}
    IN [q \in {RefTasks[t].output_path : t \in written} |->
           LET t == CHOOSE u \in written : RefTasks[u].output_path = q IN
           [index |-> RefTasks[t].file_info.index,
            complete |-> archive[RefTasks[t].file_info.index + 1].payload = "ok"]]

\* extract_files_optimized has assigned the output paths of this run
PathsAssigned ==
    pc \in {"reopen", "phaseB", "finish"} \/ (pc = "done" /\ success # "none")

\* Phase B ran and every task it submitted was collected
ExtractionReturned ==
    /\ pc \in {"finish", "done"}
    /\ success # "none"
    /\ Len(taskB) = Len(extraction_tasks)

\* the archive could not be read when Phase B reopened it
ReopenFailed == success = "False" /\ Len(taskB) = 0

\* the archive could not be read (or was missing) before Phase A
InitialReadFailed == pc = "done" /\ success = "none"

\* entry index i has been written in full to the output directory
Extracted(i) ==
    \E q \in DOMAIN outdir : outdir[q].index = i /\ outdir[q].complete

\* ------------------------------------------------------------------ C1
\* C1: whatever the worker count and the order in which the tasks of both
\* phases complete, the names assigned to the entries and the files written
\* (name, entry bytes) are those of the index-order reference run.
C1_Determinism ==
    /\ PathsAssigned => extraction_tasks = RefTasks
    /\ ExtractionReturned => outdir = RefOutdir

\* a finished two-worker run whose filename results arrived out of index
\* order, resolved a collision and wrote two complete files
C1_Witness ==
    /\ pc = "done" /\ ExtractionReturned /\ max_workers = 2
    /\ results # processed_files
    /\ \E s, t \in DOMAIN extraction_tasks :
          /\ s < t
          /\ processed_files[s].safe_name = processed_files[t].safe_name
          /\ Extracted(extraction_tasks[s].file_info.index)
          /\ Extracted(extraction_tasks[t].file_info.index)

\* ------------------------------------------------------------------ C2
\* C2: at every point of the collision loop and after it, no two entries of
\* the run have the same assigned name (or output path).
C2_Uniqueness ==
    \A s, t \in DOMAIN extraction_tasks :
        s # t => /\ extraction_tasks[s].file_info.safe_name
                      # extraction_tasks[t].file_info.safe_name
                 /\ extraction_tasks[s].output_path # extraction_tasks[t].output_path

\* x_1.dds occurs as a natural name before two entries named x.dds, so the
\* first suffix candidate of the third entry is already taken
C2_Witness ==
    /\ pc = "reopen"
    /\ Len(processed_files) = 3
    /\ processed_files[1].safe_name = NameX1
    /\ processed_files[2].safe_name = NameX
    /\ processed_files[3].safe_name = NameX
    /\ Len(extraction_tasks) = 3
    /\ extraction_tasks[3].file_info.safe_name \notin {NameX, NameX1}

\* ------------------------------------------------------------------ C3
\* C3: the value process_ipf_file_optimized returns is True exactly when
\* every entry of the archive was written in full.
C3_SuccessIffAllExtracted ==
    (pc = "done" /\ success # "none") =>
        (result = "True" <=> \A i \in 1..Len(archive) : Extracted(i - 1))

\* ------------------------------------------------------------------ C4
\* process_all_filenames has returned
PhaseAReturned == pc = "prepare" \/ PathsAssigned

BadLength(e) == e.read = "ok" /\ (e.name_len = 0 \/ e.name_len > MaxNameLen)

\* C4: an entry whose filename length is 0 or above 512 is kept by Phase A
\* under the name file_NNNN.bin and is submitted for extraction in Phase B.
C4_BadLengthKept ==
    \A i \in 1..Len(archive) :
        BadLength(archive[i]) =>
            /\ PhaseAReturned =>
                  \E k \in DOMAIN processed_files :
                      /\ processed_files[k].index = i - 1
                      /\ processed_files[k].safe_name = SyntheticName(i - 1)
            /\ PathsAssigned =>
                  \E t \in DOMAIN extraction_tasks :
                      extraction_tasks[t].file_info.index = i - 1

\* ------------------------------------------------------------------ C5
\* C5: process_all_filenames returns one FileInfo per entry, with the
\* indices 0, 1, ..., n-1.
C5_PhaseAComplete ==
    PhaseAReturned =>
        /\ Len(processed_files) = Len(archive)
        /\ \A k \in DOMAIN processed_files : processed_files[k].index = k - 1

\* ------------------------------------------------------------------ C6
StrictlyIncreasing(list) ==
    \A j, k \in DOMAIN list : j < k => list[j].index < list[k].index

\* C6: the list Phase A hands to Phase B, and the task list built from it,
\* are in strictly increasing entry-index order.
C6_IndexOrder ==
    /\ PhaseAReturned => StrictlyIncreasing(processed_files)
    /\ StrictlyIncreasing([t \in DOMAIN extraction_tasks |->
                              extraction_tasks[t].file_info])

\* Phase A returned after its results had been collected out of index order
C6_Witness ==
    /\ PhaseAReturned
    /\ \E j, k \in DOMAIN results : j < k /\ results[j].index > results[k].index

\* ------------------------------------------------------------------ C7
\* an extraction task has started, or an output file exists
PhaseBStarted ==
    \/ DOMAIN outdir # {}
    \/ \E t \in DOMAIN taskB : taskB[t] # "queued"

OkTasks == {t \in DOMAIN taskB : EntryOf(t).payload = "ok"}

\* C8: a failing extraction task is collected as a failure and never as a
\* success, and once the scheduler has returned every submitted task was
\* attempted: each entry with a sound payload is written in full and counted.
C8_ErrorIsolation ==
    /\ success_count = Cardinality({t \in DOMAIN taskB : taskB[t] = "collected_ok"})
    /\ \A t \in DOMAIN taskB :
          taskB[t] \in {"succeeded", "collected_ok"} => t \in OkTasks
    /\ ExtractionReturned =>
          /\ \A t \in DOMAIN taskB :
                /\ taskB[t] \in {"collected_ok", "collected_failed"}
                /\ t \in OkTasks =>
                      /\ taskB[t] = "collected_ok"
                      /\ Extracted(extraction_tasks[t].file_info.index)
          /\ success_count = Cardinality(OkTasks)

\* the run is over; a task failed and a task submitted after it succeeded
C8_Witness ==
    /\ pc = "done"
    /\ \E s, t \in DOMAIN taskB :
          s < t /\ taskB[s] = "collected_failed" /\ taskB[t] = "collected_ok"

\* ------------------------------------------------------------------ C9
\* C9: when the archive cannot be opened or parsed, at the initial read or
\* when Phase B reopens it, the run's result is failure and nothing was
\* written.
C9_ArchiveErrorsFatal ==
    (pc = "done" /\ (InitialReadFailed \/ ReopenFailed)) =>
        result = "False" /\ DOMAIN outdir = {}

\* ----------------------------------------------------------------- C10
\* C10: an entry whose data does not match the directory's crc32 is still
\* written in full and counted as extracted.
C10_CrcMismatchTolerated ==
    ExtractionReturned =>
        \A t \in DOMAIN taskB :
            EntryOf(t).payload = "crc" =>
                /\ taskB[t] = "collected_ok"
                /\ Extracted(extraction_tasks[t].file_info.index)

\* ------------------------------------------------ the archive's handles
\* The reads of archive bytes that the workers of one phase make at the same
\* time.  Phase A (lines 104-128): every task opens the archive itself, seeks
\* to the length field and reads it, seeks to the filename and reads it.
\* Phase B (lines 301-304 and 239-245): one file object and one ZipFile are
\* shared by all workers; ZipFile.open and the member's reads go through the
\* ZipFile's lock, and inside it seek the shared file object to the member's
\* own position, read, and remember the new position.
MaxReaders == 2

\* the run is not being executed
RunIdle ==
    /\ archive = <<>>
    /\ max_workers = 1
    /\ pc = "start"
    /\ taskA = <<>>
    /\ results = <<>>
    /\ completed_count = 0
    /\ processed_files = <<>>
    /\ extraction_tasks = <<>>
    /\ taskB = <<>>
    /\ outdir = <<>>
    /\ extracted_count = 0
    /\ success_count = 0
    /\ success = "none"
    /\ result = "none"
    /\ workers_arg = <<>>
    /\ cpu_count = 0

\* header_offset of the entries a worker can be given
HeaderOffsets == {0, 64, 128}

\* the entries of the workers: distinct local headers
Layouts ==
    {l \in SeqsUpTo([header_offset : HeaderOffsets, name_len : {Len(NameX), Len(NameX1)}],
                    MaxReaders) :
        /\ Len(l) >= 1
        /\ \A v, w \in 1..Len(l) : v # w => l[v].header_offset # l[w].header_offset}

\* the file object worker w reads through: its own in Phase A (line 105),
\* the one opened at line 303 in Phase B
HandleOf(phase, w) == IF phase = "A" THEN w ELSE 1

\* the workers that read through the file object h
Owners(phase, n, h) == {w \in 1..n : HandleOf(phase, w) = h}

\* the reads of one task: where it positions the handle and how many bytes
\* it asks for.  Phase A, lines 110-124; Phase B, the local header and the
\* filename that ZipFile.open reads from the member's own position
ReadPlan(phase, e, own_pos, k) ==
    IF phase = "A"
    THEN IF k = 1 THEN [at |-> e.header_offset + 26, n |-> 2]
         ELSE [at |-> e.header_offset + 30, n |-> e.name_len]
    ELSE IF k = 1 THEN [at |-> own_pos, n |-> 30]
         ELSE [at |-> own_pos, n |-> e.name_len]

InitHandle ==
    /\ RunIdle
    /\ cipher = <<>> /\ decode = <<>> /\ progress = <<>>
    /\ processors = <<>> /\ cli = <<>>
    /\ \E phase \in {"A", "B"}, layout \in Layouts :
          handle = [phase |-> phase,
                    entry |-> layout,
                    fpos |-> [h \in {HandleOf(phase, w) : w \in 1..Len(layout)} |-> 0],
                    own_pos |-> [w \in 1..Len(layout) |-> layout[w].header_offset],
                    lock |-> 0,
                    sought |-> [w \in 1..Len(layout) |-> FALSE],
                    got |-> [w \in 1..Len(layout) |-> <<>>]]

\* a handle every worker may position at any time
CanEnter_NoLock(lock) == TRUE

\* "with self._lock" of the shared ZipFile: one worker at a time
CanEnter(lock) == lock = 0

\* worker w positions its handle for its next read
Seek(w) ==
    /\ ~handle.sought[w]
    /\ Len(handle.got[w]) < 2
    /\ handle.phase = "B" => CanEnter(handle.lock)
    /\ LET h == HandleOf(handle.phase, w)
           plan == ReadPlan(handle.phase, handle.entry[w], handle.own_pos[w],
                            Len(handle.got[w]) + 1)
       IN handle' = [handle EXCEPT !.fpos[h] = plan.at,
                                   !.sought[w] = TRUE,
                                   !.lock = IF handle.phase = "B" THEN w ELSE 0]
    /\ UNCHANGED <<runVars, cipher, decode, progress, processors, cli>>

\* worker w reads from wherever its handle stands now
Read(w) ==
    /\ handle.sought[w]
    /\ LET h == HandleOf(handle.phase, w)
           plan == ReadPlan(handle.phase, handle.entry[w], handle.own_pos[w],
                            Len(handle.got[w]) + 1)
       IN handle' = [handle EXCEPT
                        !.got[w] = Append(@, [at |-> handle.fpos[h], n |-> plan.n]),
                        !.fpos[h] = @ + plan.n,
                        !.own_pos[w] = handle.fpos[h] + plan.n,
                        !.sought[w] = FALSE,
                        !.lock = 0]
    /\ UNCHANGED <<runVars, cipher, decode, progress, processors, cli>>

NextHandle ==
    \/ \E w \in DOMAIN handle.entry : Seek(w)
    \/ \E w \in DOMAIN handle.entry : Read(w)

SpecHandle == InitHandle /\ [][NextHandle]_vars

\* the offsets the reads of worker w are meant for
Wanted(w) ==
    LET e == handle.entry[w] IN
    IF handle.phase = "A"
    THEN <<e.header_offset + 26, e.header_offset + 30>>
    ELSE <<e.header_offset, e.header_offset + 30>>

RECURSIVE XorBits(_, _, _)
\* bitwise exclusive or of two numbers below 2^bits
XorBits(a, b, bits) ==
    IF bits = 0 THEN 0
    ELSE ((a + b) % 2) + 2 * XorBits(a \div 2, b \div 2, bits - 1)

Xor8(a, b) == XorBits(a, b, 8)

XorWord(x, y) == [k \in 1..4 |-> Xor8(x[k], y[k])]

\* x >> 1
Shr1(x) == [k \in 1..4 |-> (x[k] \div 2) + (IF k < 4 THEN (x[k + 1] % 2) * 128 ELSE 0)]

\* 0xEDB88320
Polynomial == <<32, 131, 184, 237>>

RECURSIVE CrcRounds(_, _)
CrcRounds(c, n) ==
    IF n = 0 THEN c
    ELSE CrcRounds(IF c[1] % 2 = 1 THEN XorWord(Shr1(c), Polynomial) ELSE Shr1(c), n - 1)

\* the 256-entry CRC-32 table, built once
crc32_tab == [i \in 0..255 |-> CrcRounds(<<i, 0, 0, 0>>, 8)]

\* (prev >> 8) XOR table[(prev XOR byte) & 0xFF]
crc32_update(prev, byte) ==
    XorWord(<<prev[2], prev[3], prev[4], 0>>, crc32_tab[Xor8(prev[1], byte)])

RECURSIVE Carry(_, _, _)
\* the word of the column sums cols[k..4] and the carry c, modulo 2^32
Carry(cols, k, c) ==
    IF k > 4 THEN <<>>
    ELSE <<(cols[k] + c) % 256>> \o Carry(cols, k + 1, (cols[k] + c) \div 256)

\* (x + n) mod 2^32
AddWord(x, n) == Carry([x EXCEPT ![1] = @ + n], 1, 0)

\* 0x08088405
Multiplier == <<5, 132, 8, 8>>

RECURSIVE Column(_, _, _, _)
\* the sum of x[i] * y[j] over i + j = k + 1, from i down to 1
Column(x, y, k, i) ==
    IF i = 0 THEN 0 ELSE x[i] * y[k + 1 - i] + Column(x, y, k, i - 1)

\* (x * y + 1) mod 2^32
MulAddOne(x, y) ==
    Carry([k \in 1..4 |-> Column(x, y, k, k) + (IF k = 1 THEN 1 ELSE 0)], 1, 0)

\* the state after one plaintext byte: keys is <<key0, key1, key2>>
update_keys(keys, byte) ==
    LET key0 == crc32_update(keys[1], byte)
        key1 == MulAddOne(AddWord(keys[2], key0[1]), Multiplier)
        key2 == crc32_update(keys[3], key1[4])
    IN <<key0, key1, key2>>

\* temp = (key2 | 2) & 0xFFFF; ((temp * (temp ^ 1)) >> 8) & 0xFF
decrypt_byte(keys) ==
    LET lo == IF (keys[3][1] \div 2) % 2 = 1 THEN keys[3][1] ELSE keys[3][1] + 2
        hi == keys[3][2]
        lo1 == Xor8(lo, 1)
    IN (((lo * lo1) \div 256) + hi * lo1 + lo * hi) % 256

\* 0x12345678, 0x23456789, 0x34567890
InitialKeys == <<<<120, 86, 52, 18>>, <<137, 103, 69, 35>>, <<144, 120, 86, 52>>>>

\* get_ipf_password(): 20 bytes.  The function is imported at line 15 and
\* its bytes are not in the sources; nothing checked below depends on
\* which 20 bytes they are.
Password ==
    <<111, 102, 79, 49, 97, 48, 117, 101, 88, 65,
      63, 32, 91, 255, 115, 32, 104, 32, 37, 63>>

RECURSIVE AbsorbKeys(_, _)
\* the keys after the bytes of the password, one update_keys per byte (the
\* three words are computed before the next byte is taken)
AbsorbKeys(keys, bytes) ==
    IF bytes = <<>> THEN keys
    ELSE LET next == update_keys(keys, bytes[1]) IN
         IF Len(next) = 3 THEN AbsorbKeys(next, Tail(bytes)) ELSE next

\* ZipCipher.init_keys
init_keys(password) == AbsorbKeys(InitialKeys, password)

\* the state of a cipher that has just been keyed with the password
FreshKeys == init_keys(Password)

\* a step that advances the keys with the byte it was given
DecryptStep_ByCipherByte(keys, c) ==
    [plain |-> Xor8(c, decrypt_byte(keys)), keys |-> update_keys(keys, c)]

\* one byte of decrypt_data: the plaintext byte and the advanced keys
DecryptStep(keys, c) ==
    LET plain == Xor8(c, decrypt_byte(keys)) IN
    [plain |-> plain, keys |-> update_keys(keys, plain)]

RECURSIVE decrypt_data(_, _)
\* ZipCipher.decrypt_data from the state keys
decrypt_data(keys, data) ==
    IF data = <<>> THEN <<>>
    ELSE LET step == DecryptStep(keys, data[1]) IN
         <<step.plain>> \o decrypt_data(step.keys, Tail(data))

RECURSIVE encrypt_data(_, _)
\* the cipher run the other way: the same key stream, advanced by the plaintext
encrypt_data(keys, data) ==
    IF data = <<>> THEN <<>>
    ELSE <<Xor8(data[1], decrypt_byte(keys))>>
         \o encrypt_data(update_keys(keys, data[1]), Tail(data))

\* ------------------------------------------- decryptions running at once
\* Phase A decrypts one filename per task (lines 101-102 and 131); Phase B
\* opens one member per task with the password (line 239), and zipfile gives
\* every opened member a decrypter of its own that first takes the 12-byte
\* encryption header.  A stream is decrypted byte by byte, and the bytes of
\* different tasks interleave.
MaxStreams == 2
MaxData == 3

\* the byte strings that are decrypted side by side
CipherSamples == {<<18, 52, 86>>, <<255>>, <<0, 65>>}

\* the bytes that are encrypted and decrypted again
ByteSamples == {0, 65, 255}

\* the 12 bytes in front of an encrypted member
EncryptionHeader == [k \in 1..12 |-> 16 * k]

\* the bytes a task reads for the stream s
StreamInput(phase, s) == IF phase = "B" THEN EncryptionHeader \o s ELSE s

\* the bytes of a stream that come before its data
HeaderLen(phase) == IF phase = "B" THEN Len(EncryptionHeader) ELSE 0

RECURSIVE KeysAfter(_, _)
\* the keys after data has been decrypted
KeysAfter(keys, data) ==
    IF data = <<>> THEN keys
    ELSE LET step == DecryptStep(keys, data[1]) IN
         IF Len(step.keys) = 3 THEN KeysAfter(step.keys, Tail(data)) ELSE step.keys

CipherState(phase, inputs, plains) ==
    [phase |-> phase,
     input |-> inputs,
     plain |-> plains,
     keys |-> [t \in DOMAIN inputs |-> <<>>],
     built |-> [t \in DOMAIN inputs |-> FALSE],
     pos |-> [t \in DOMAIN inputs |-> 0],
     out |-> [t \in DOMAIN inputs |-> <<>>]]

InitCipher ==
    /\ RunIdle
    /\ handle = <<>> /\ decode = <<>> /\ progress = <<>>
    /\ processors = <<>> /\ cli = <<>>
    /\ \E phase \in {"A", "B"}, streams \in SeqsUpTo(CipherSamples, MaxStreams) :
          /\ streams # <<>>
          /\ cipher = CipherState(phase,
                                  [t \in DOMAIN streams |-> StreamInput(phase, streams[t])],
                                  [t \in DOMAIN streams |-> <<>>])

\* one cipher object used by every task
CipherSlot_Shared(t) == 1

\* the cipher object of task t: "cipher = ZipCipher()" gives every call its
\* own, as does every ZipFile.open
CipherSlot(t) == t

\* lines 101-102 (line 239 in Phase B): a new cipher, keyed with the
\* password; a member's decrypter then takes the encryption header
Construct(t) ==
    /\ ~cipher.built[t]
    /\ LET header == SubSeq(cipher.input[t], 1, HeaderLen(cipher.phase)) IN
       cipher' = [cipher EXCEPT
                     !.keys[CipherSlot(t)] = KeysAfter(FreshKeys, header),
                     !.built[t] = TRUE,
                     !.pos[t] = Len(header)]
    /\ UNCHANGED <<runVars, handle, decode, progress, processors, cli>>

\* the next byte of the stream of task t goes through its cipher
DecryptByte(t) ==
    /\ cipher.built[t]
    /\ cipher.pos[t] < Len(cipher.input[t])
    /\ LET step == DecryptStep(cipher.keys[CipherSlot(t)],
                               cipher.input[t][cipher.pos[t] + 1])
       IN cipher' = [cipher EXCEPT
                        !.keys[CipherSlot(t)] = step.keys,
                        !.pos[t] = @ + 1,
                        !.out[t] = Append(@, step.plain)]
    /\ UNCHANGED <<runVars, handle, decode, progress, processors, cli>>

NextCipher ==
    \/ \E t \in DOMAIN cipher.input : Construct(t)
    \/ \E t \in DOMAIN cipher.input : DecryptByte(t)

SpecCipher == InitCipher /\ [][NextCipher]_vars

\* the plaintext of stream t when it is decrypted alone, in one piece
DecryptedAlone(t) ==
    LET header == SubSeq(cipher.input[t], 1, HeaderLen(cipher.phase))
        data == SubSeq(cipher.input[t], Len(header) + 1, Len(cipher.input[t]))
    IN decrypt_data(KeysAfter(FreshKeys, header), data)

\* C12: every task decrypts with a cipher state of its own, keyed from the
\* password, so the bytes a task has decrypted are those of its stream
\* decrypted alone, whatever the other tasks did before or in between.
C12_CipherNotShared ==
    \A t \in DOMAIN cipher.input :
        cipher.out[t] = SubSeq(DecryptedAlone(t), 1, Len(cipher.out[t]))

\* task 2 built its cipher and decrypted a byte while task 1 was in the
\* middle of its stream, and task 1 has decrypted another byte since
C12_Witness ==
    /\ Len(cipher.input) = 2
    /\ Len(cipher.out[2]) = 1
    /\ Len(cipher.out[1]) = 2
    /\ Len(cipher.input[1]) > HeaderLen(cipher.phase) + 2

\* ------------------------------------------------- encrypt, then decrypt
\* One stream: bytes encrypted by a freshly keyed cipher are handed to
\* another freshly keyed cipher, byte by byte.
InitRoundTrip ==
    /\ RunIdle
    /\ handle = <<>> /\ decode = <<>> /\ progress = <<>>
    /\ processors = <<>> /\ cli = <<>>
    /\ \E data \in SeqsUpTo(ByteSamples, MaxData) :
          cipher = CipherState("A", <<encrypt_data(FreshKeys, data)>>, <<data>>)

SpecRoundTrip == InitRoundTrip /\ [][NextCipher]_vars

\* a 32-bit word: four bytes
IsWord(x) == DOMAIN x = 1..4 /\ \A k \in 1..4 : x[k] \in 0..255

\* C20: decrypting what a freshly keyed cipher encrypted gives the data back;
\* decryption yields one byte for every byte taken, each a byte, and the
\* three key words stay within 32 bits.
C20_RoundTrip ==
    \A t \in DOMAIN cipher.input :
        /\ Len(cipher.out[t]) = cipher.pos[t]
        /\ cipher.out[t] = SubSeq(cipher.plain[t], 1, cipher.pos[t])
        /\ \A k \in 1..Len(cipher.out[t]) : cipher.out[t][k] \in 0..255
        /\ cipher.built[t] =>
              /\ Len(cipher.keys[t]) = 3
              /\ \A k \in 1..3 : IsWord(cipher.keys[t][k])

\* a stream of at least three bytes has been decrypted to the end
C20_Witness ==
    /\ Len(cipher.plain[1]) >= 3
    /\ cipher.pos[1] = Len(cipher.input[1])
    /\ cipher.out[1] = cipher.plain[1]
    /\ cipher.input[1] # cipher.plain[1]

\* ------------------------------------------- the decoding of one filename
\* Lines 133-161 step by step, for the decrypted bytes of one local-header
\* filename: the for loop over the four encodings, the cp932 fallback, and
\* the choice of the safe name.
MaxBytes == 2

\* '/', 'A', a control character, a UTF-8 two-byte character (0xC3 0xA9), and
\* bytes that are cp932 lead bytes, half-width katakana or undefined in cp1252
DecodeBytes == {47, 65, 1, 195, 169, 131, 129, 177, 255}

\* entry indexes
DecodeIndexes == {0, 7}

InitDecode ==
    /\ RunIdle
    /\ handle = <<>> /\ cipher = <<>> /\ progress = <<>>
    /\ processors = <<>> /\ cli = <<>>
    /\ \E b \in SeqsUpTo(DecodeBytes, MaxBytes), index \in DecodeIndexes :
          /\ b # <<>>
          /\ decode = [bytes |-> b, index |-> index, stage |-> "loop", k |-> 1,
                       tried |-> <<>>, decoded_name |-> <<>>, safe_name |-> <<>>]

\* a loop without the break of line 140
LoopEnds_NoBreak(accepted, k) == k = Len(Encodings)

\* the for loop is left by the break of line 140 or after its last encoding
LoopEnds(accepted, k) == accepted \/ k = Len(Encodings)

\* lines 135-142: one iteration of the for loop
TryEncoding ==
    /\ decode.stage = "loop"
    /\ LET encoding == Encodings[decode.k]
           accepted == Accepted(encoding, decode.bytes)
       IN decode' = [decode EXCEPT
                        !.tried = Append(@, encoding),
                        !.decoded_name =
                            IF accepted THEN TryDecode(encoding, decode.bytes).text ELSE @,
                        !.k = @ + 1,
                        !.stage = IF LoopEnds(accepted, decode.k) THEN "fallback" ELSE "loop"]
    /\ UNCHANGED <<runVars, handle, cipher, progress, processors, cli>>

\* a fallback that accepts any non-empty result
Cp932Accepted_Any(decoded) == decoded # <<>>

\* `if decoded and len(decoded) > 1` (line 148)
Cp932Accepted(decoded) == decoded # <<>> /\ Len(decoded) > 1

\* lines 144-151: the cp932 fallback, entered only without a decoded name
Fallback ==
    /\ decode.stage = "fallback"
    /\ IF decode.decoded_name = <<>>
       THEN LET decoded == Cp932Ignore(decode.bytes, 1) IN
            decode' = [decode EXCEPT
                          !.tried = Append(@, "cp932"),
                          !.decoded_name = IF Cp932Accepted(decoded) THEN decoded ELSE @,
                          !.stage = "name"]
       ELSE decode' = [decode EXCEPT !.stage = "name"]
    /\ UNCHANGED <<runVars, handle, cipher, progress, processors, cli>>

\* line 154: the safe name
MakeName ==
    /\ decode.stage = "name"
    /\ decode' = [decode EXCEPT
                     !.safe_name = IF decode.decoded_name # <<>>
                                   THEN make_safe_filename(decode.decoded_name)
                                   ELSE SyntheticName(decode.index),
                     !.stage = "done"]
    /\ UNCHANGED <<runVars, handle, cipher, progress, processors, cli>>

NextDecode == TryEncoding \/ Fallback \/ MakeName

SpecDecode == InitDecode /\ [][NextDecode]_vars

\* the attempts in the order the code can make them
AttemptOrder == Encodings \o <<"cp932">>

\* C13: the attempts made are a prefix of UTF-8, ISO-8859-1, Windows-1252,
\* ASCII; an attempt is followed by another only if it was not accepted; the
\* cp932 fallback comes only after the four were tried and none accepted; and
\* a name accepted in the loop is the text of the first encoding that accepts.
C13_EncodingOrder ==
    /\ Len(decode.tried) <= Len(AttemptOrder)
    /\ decode.tried = SubSeq(AttemptOrder, 1, Len(decode.tried))
    /\ \A i \in 1..(Len(decode.tried) - 1) : ~Accepted(decode.tried[i], decode.bytes)
    /\ \A i \in 1..Len(decode.tried) :
          (decode.tried[i] # "cp932" /\ Accepted(decode.tried[i], decode.bytes))
             => decode.decoded_name = TryDecode(decode.tried[i], decode.bytes).text

\* "A/" was accepted as UTF-8 and nothing was tried after it
C13_Witness ==
    /\ decode.stage = "done"
    /\ decode.bytes = <<65, 47>>
    /\ decode.tried = <<"utf-8">>
    /\ decode.decoded_name = <<65, 47>>

\* no attempt can be accepted for these bytes
NoneAccepted(b) ==
    /\ \A k \in 1..Len(Encodings) : ~Accepted(Encodings[k], b)
    /\ Len(Cp932Ignore(b, 1)) <= 1

\* C14: when none of the four encodings is accepted and the cp932 result is
\* empty or one character long, the decoded name is absent and the safe name
\* is file_NNNN.bin for the entry's index; otherwise the safe name is the
\* sanitized decoded name, and it is not empty.
C14_SyntheticWhenUndecoded ==
    decode.stage = "done" =>
        IF NoneAccepted(decode.bytes)
        THEN /\ decode.decoded_name = <<>>
             /\ decode.safe_name = <<102, 105, 108, 101, 95>>
                                   \o ZeroPad(Digits(decode.index)) \o <<46, 98, 105, 110>>
             /\ Len(decode.safe_name) = 13
        ELSE /\ decode.decoded_name # <<>>
             /\ decode.safe_name = make_safe_filename(decode.decoded_name)
             /\ decode.safe_name # <<>>

\* one control character: four rejections, a cp932 result of length 1, and
\* the name file_0007.bin
C14_Witness ==
    /\ decode.stage = "done"
    /\ decode.bytes = <<1>>
    /\ decode.index = 7
    /\ decode.tried = AttemptOrder
    /\ decode.safe_name = <<102, 105, 108, 101, 95, 48, 48, 48, 55, 46, 98, 105, 110>>

\* ----------------------------------------------------------------- C15
\* ".dds"
DotDds == <<46, 100, 100, 115>>

EndsWithDds(n) == Len(n) > Len(DotDds) /\ SubSeq(n, Len(n) - 3, Len(n)) = DotDds

\* the name with _k put in front of its extension .dds, or at its end when
\* it has no extension
Candidate(n, k) ==
    IF EndsWithDds(n)
    THEN SubSeq(n, 1, Len(n) - 4) \o <<95>> \o Digits(k) \o DotDds
    ELSE n \o <<95>> \o Digits(k)

\* the names given to the entries before the t-th
AssignedBefore(t) == {extraction_tasks[u].file_info.safe_name : u \in 1..(t - 1)}

\* C15: entries get their names in index order; an entry whose safe name is
\* not yet assigned keeps it, any other gets name_k+ext for the smallest
\* k >= 1 that is not yet assigned; two entries named x.dds get x.dds and
\* x_1.dds, the lower index x.dds.
C15_SmallestSuffix ==
    /\ \A t \in DOMAIN extraction_tasks :
          LET base == processed_files[t].safe_name
              got == extraction_tasks[t].file_info.safe_name
          IN /\ extraction_tasks[t].file_info.index = processed_files[t].index
             /\ IF base \notin AssignedBefore(t) THEN got = base
                ELSE \E k \in 1..Len(processed_files) :
                        /\ got = Candidate(base, k)
                        /\ got \notin AssignedBefore(t)
                        /\ \A j \in 1..(k - 1) : Candidate(base, j) \in AssignedBefore(t)
    /\ (/\ Len(extraction_tasks) = 2
        /\ processed_files[1].safe_name = NameX
        /\ processed_files[2].safe_name = NameX)
          => /\ extraction_tasks[1].file_info.safe_name = NameX
             /\ extraction_tasks[2].file_info.safe_name = NameX1

\* x.dds, x_1.dds, x.dds: the third entry finds x_1.dds taken and gets x_2.dds
C15_Witness ==
    /\ pc = "reopen"
    /\ Len(extraction_tasks) = 3
    /\ processed_files[1].safe_name = NameX
    /\ processed_files[2].safe_name = NameX1
    /\ processed_files[3].safe_name = NameX
    /\ extraction_tasks[3].file_info.safe_name = <<120, 95, 50, 46, 100, 100, 115>>

\* ----------------------------------------------------------------- C16
\* C16: when the run reports success, the output directory holds one file
\* for every entry of the archive and no other file.
C16_OneFilePerEntry ==
    result = "True" =>
        /\ Cardinality(DOMAIN outdir) = Len(archive)
        /\ \A i \in 1..Len(archive) : \E q \in DOMAIN outdir : outdir[q].index = i - 1

\* ------------------------------------------------ the worker count
\* multiprocessing.cpu_count() of the machines the run is started on
CpuCounts == {1, 2, 16}

\* min(8, cpu_count())
DefaultWorkers(cpus) == IF cpus < 8 THEN cpus ELSE 8

\* max_workers or min(8, cpu_count())  (lines 92 and 226): None and 0 are
\* false, and cpu_count() is only called for them
EffectiveWorkers(arg, cpus) ==
    IF arg # <<>> /\ arg[1] # 0 THEN arg[1] ELSE DefaultWorkers(cpus)

\* entries whose filename is x.dds
PoolEntries ==
    [read : {"ok"}, name_len : {Len(NameX)}, name : {NameX}, payload : {"ok", "corrupt"}]

\* the run started with or without a worker count
InitPool ==
    /\ archive \in SeqsUpTo(PoolEntries, MaxEntries)
    /\ workers_arg \in {<<>>} \cup {<<n>> : n \in 1..MaxWorkers}
    /\ cpu_count \in IF workers_arg = <<>> THEN CpuCounts ELSE {0}
    /\ max_workers = EffectiveWorkers(workers_arg, cpu_count)
    /\ pc = "start"
    /\ taskA = [i \in 1..Len(archive) |-> "unsubmitted"]
    /\ results = <<>>
    /\ completed_count = 0
    /\ processed_files = <<>>
    /\ extraction_tasks = <<>>
    /\ taskB = <<>>
    /\ outdir = <<>>
    /\ extracted_count = 0
    /\ success_count = 0
    /\ success = "none"
    /\ result = "none"
    /\ UnitsIdle

SpecPool == InitPool /\ [][Next]_vars

\* tasks of a phase that a pool thread is executing
Executing(task, running) == {i \in DOMAIN task : task[i] \in running}

\* C17: in each phase at most max_workers tasks execute at once; without a
\* worker count from the caller max_workers is min(8, cpu_count), with one it
\* is that count; with one worker the tasks execute one at a time, and the
\* files written are those of the one-at-a-time run in index order.
C17_BoundedPool ==
    /\ Cardinality(Executing(taskA, {"running"})) <= max_workers
    /\ Cardinality(Executing(taskB, {"streaming", "counting"})) <= max_workers
    /\ workers_arg = <<>> =>
          \/ cpu_count <= 8 /\ max_workers = cpu_count
          \/ cpu_count > 8 /\ max_workers = 8
    /\ workers_arg # <<>> => max_workers = workers_arg[1]
    /\ max_workers = 1 =>
          /\ Cardinality(Executing(taskA, {"running"})) <= 1
          /\ Cardinality(Executing(taskB, {"streaming", "counting"})) <= 1
    /\ ExtractionReturned =>
          /\ DOMAIN outdir = DOMAIN RefOutdir
          /\ \A q \in DOMAIN outdir : outdir[q] = RefOutdir[q]

\* no worker count was given on a 16-CPU machine, the pool has 8 threads,
\* and both extraction tasks of the archive are executing
C17_Witness ==
    /\ workers_arg = <<>>
    /\ cpu_count = 16
    /\ max_workers = 8
    /\ Cardinality(Executing(taskB, {"streaming", "counting"})) = 2

\* ------------------------------------------------------- fair scheduling
\* The main thread runs whenever it can take a step (it blocks only in
\* as_completed, until a future is done), and the threads of each pool run
\* the tasks they were given: the operating system schedules every runnable
\* thread.
MainThread ==
    \/ Precheck
    \/ ReadStructure
    \/ \E i \in DOMAIN taskA : CollectA(i)
    \/ ReturnA
    \/ PreparePaths
    \/ ReopenArchive
    \/ \E t \in DOMAIN taskB : CollectB(t)
    \/ ReturnB
    \/ Finish

PoolA == \E i \in DOMAIN taskA : StartA(i) \/ FinishA(i)

PoolB == \E t \in DOMAIN taskB : StartB(t) \/ StreamB(t) \/ CountB(t)

SpecFair ==
    /\ Init
    /\ [][Next]_vars
    /\ WF_vars(MainThread)
    /\ WF_vars(PoolA)
    /\ WF_vars(PoolB)

\* extraction tasks whose failure the collector has seen
FailedTasks == {t \in DOMAIN taskB : taskB[t] = "collected_failed"}

\* C18: the run ends; Phase A, once its tasks are submitted, returns, and so
\* does Phase B; Phase B has returned only if every submitted task was
\* collected, and then success_count plus the failed tasks is the number of
\* submitted tasks.
C18_Termination ==
    /\ <>(pc = "done")
    /\ (pc = "phaseA") ~> (pc = "prepare")
    /\ (pc = "phaseB") ~> (pc = "finish")
    /\ [](ExtractionReturned =>
             /\ \A t \in DOMAIN taskB : taskB[t] \in {"collected_ok", "collected_failed"}
             /\ success_count + Cardinality(FailedTasks) = Len(taskB))

\* the run is over; of its two extraction tasks one succeeded and one failed
C18_Witness ==
    /\ pc = "done"
    /\ Len(taskB) = 2
    /\ success_count = 1
    /\ Cardinality(FailedTasks) = 1

\* ------------------------------------------------------ ProgressLogger
\* One ProgressLogger (lines 20-76) and the clock it reads, in whole
\* seconds.  The logger is called with the counts 1, 2, ... (completed_count
\* at line 198, self._extracted_count at line 255), and the clock moves
\* between the calls.
MaxTotal == 3
MaxElapsed == 4

\* log_interval: float = 2.0
LogInterval == 2

\* time.time() when the logger is constructed: seconds since 1970, far more
\* than log_interval after the 0 that last_log_time starts with
StartClock == 10

Max(a, b) == IF a >= b THEN a ELSE b

\* _calculate_log_steps (lines 35-55): int(total * 0.1) and so on are the
\* integer parts of total/10, total/20, total/100
LogSteps(total_files) ==
    LET interval == IF total_files < 1000 THEN Max(100, total_files \div 10)
                    ELSE IF total_files < 10000 THEN Max(500, total_files \div 20)
                    ELSE Max(1000, total_files \div 100)
    IN {i \in 0..total_files : i % interval = 0} \cup {total_files}

\* ProgressLogger(total_files) at the time StartClock
InitProgress ==
    /\ RunIdle
    /\ handle = <<>> /\ cipher = <<>> /\ decode = <<>>
    /\ processors = <<>> /\ cli = <<>>
    /\ \E total_files \in 1..MaxTotal :
          progress = [total_files |-> total_files,
                      log_steps |-> LogSteps(total_files),
                      last_log_time |-> 0,
                      start_time |-> StartClock,
                      now |-> StartClock,
                      current |-> 0,
                      shown |-> <<>>]

\* a second passes
Tick ==
    /\ progress.now < StartClock + MaxElapsed
    /\ progress' = [progress EXCEPT !.now = @ + 1]
    /\ UNCHANGED <<runVars, handle, cipher, decode, processors, cli>>

\* a logger that finds it is always time to log
should_log_Always(now, last_log_time) == TRUE

\* should_log (lines 57-59)
should_log(now, last_log_time) == now - last_log_time >= LogInterval

\* log_progress(current) for the next count (lines 61-76); shown keeps, for
\* the last two updates written to stdout, the time and whether the count
\* was one of log_steps
LogProgress ==
    /\ progress.current < progress.total_files
    /\ LET current == progress.current + 1
           step == current \in progress.log_steps
           due == step \/ (current > 0 /\ should_log(progress.now, progress.last_log_time))
           visible == due /\ progress.now - progress.start_time > 0
           update == [time |-> progress.now, step |-> step]
       IN progress' = [progress EXCEPT
                          !.current = current,
                          !.last_log_time = IF due THEN progress.now ELSE @,
                          !.shown = IF ~visible THEN @
                                    ELSE IF @ = <<>> THEN <<update>>
                                    ELSE <<@[Len(@)], update>>]
    /\ UNCHANGED <<runVars, handle, cipher, decode, processors, cli>>

NextProgress == Tick \/ LogProgress

SpecProgress == InitProgress /\ [][NextProgress]_vars

\* C19 as stated: two consecutive visible updates are at least log_interval
\* apart.
C19_RateLimit ==
    Len(progress.shown) = 2 =>
        progress.shown[2].time - progress.shown[1].time >= LogInterval

\* C19, amended: a visible update for a count that is not one of the
\* precomputed steps comes at least log_interval after the visible update
\* before it; updates for the precomputed steps are written whenever their
\* count is reached.
C19_RateLimitOffSteps ==
    (Len(progress.shown) = 2 /\ ~progress.shown[2].step) =>
        progress.shown[2].time - progress.shown[1].time >= LogInterval

\* the counts 1 and 2 of 3 were both shown, two seconds apart, neither being
\* a precomputed step
C19_Witness ==
    /\ progress.total_files = 3
    /\ progress.current = 2
    /\ Len(progress.shown) = 2
    /\ ~progress.shown[1].step
    /\ ~progress.shown[2].step
    /\ progress.shown[2].time - progress.shown[1].time = LogInterval

\* ----------------------------------------------------------------- C21
\* the archive is damaged: it has no entry, or the local header of an entry
\* cannot be read or holds an impossible filename length, or the payload of
\* an entry does not inflate to what the central directory promises
Malformed ==
    \/ Len(archive) = 0
    \/ \E i \in 1..Len(archive) :
          \/ archive[i].read # "ok"
          \/ BadLength(archive[i])
          \/ archive[i].payload # "ok"

\* C21: process_ipf_file_optimized, given a malformed archive, returns the
\* failure result (False); no exception leaves it, and a task that failed
\* in a worker does not stop the run from returning.
C21_MalformedFails ==
    (pc = "done" /\ Malformed) => result = "False"

\* ----------------------------------------------------------------- C22
\* C22: an entry whose extraction did not complete leaves no partially
\* written file at its output path: once its task has ended, every file in
\* the output directory holds the whole of its entry.
C22_NoPartialFiles ==
    \A t \in DOMAIN taskB :
        taskB[t] \in {"failed", "collected_failed"} =>
            \/ extraction_tasks[t].output_path \notin DOMAIN outdir
            \/ outdir[extraction_tasks[t].output_path].complete

\* ----------------------------------------- _calculate_log_steps (C23)
\* The loop of _calculate_log_steps (lines 35-55), one iteration of
\* `for i in range(0, total_files + 1, interval)` per step.
\* total_files < 1000 and total_files < 10000 (lines 40, 43)
SmallLimit == 1000
MediumLimit == 10000
\* the least interval of each size class (lines 41, 44, 47)
MinSmallStep == 100
MinMediumStep == 500
MinLargeStep == 1000

\* totals of every size class, with the ends of the classes, and two where
\* one percent is more than the least interval
TotalSamples == {0, 1, 3, 250, 999, 1000, 2500, 9999, 10000, 25000, 100000, 123456}

\* int(total_files * 0.1), int(total_files * 0.05), int(total_files * 0.01):
\* the share of the total that belongs to its size class
PercentOf(total_files) ==
    IF total_files < SmallLimit THEN total_files \div 10
    ELSE IF total_files < MediumLimit THEN total_files \div 20
    ELSE total_files \div 100

\* `interval` of lines 40-47
StepInterval(total_files) ==
    IF total_files < SmallLimit THEN Max(MinSmallStep, total_files \div 10)
    ELSE IF total_files < MediumLimit THEN Max(MinMediumStep, total_files \div 20)
    ELSE Max(MinLargeStep, total_files \div 100)

\* _calculate_log_steps is entered: steps = [] and the range starts at 0
InitSteps ==
    /\ RunIdle
    /\ handle = <<>> /\ cipher = <<>> /\ decode = <<>>
    /\ processors = <<>> /\ cli = <<>>
    /\ \E total_files \in TotalSamples :
          progress = [total_files |-> total_files,
                      interval |-> StepInterval(total_files),
                      steps |-> <<>>,
                      i |-> 0,
                      returned |-> FALSE,
                      log_steps |-> {}]

\* lines 50-51: steps.append(i) for the next i of the range
AppendStep ==
    /\ ~progress.returned
    /\ progress.i <= progress.total_files
    /\ progress' = [progress EXCEPT !.steps = Append(@, progress.i),
                                    !.i = @ + progress.interval]
    /\ UNCHANGED <<runVars, handle, cipher, decode, processors, cli>>

\* lines 52-55: the range is exhausted; add the total when the last step is
\* not the total, and return the steps as a set
ReturnSteps ==
    /\ ~progress.returned
    /\ progress.i > progress.total_files
    /\ LET steps == IF progress.steps[Len(progress.steps)] # progress.total_files
                    THEN Append(progress.steps, progress.total_files)
                    ELSE progress.steps
       IN progress' = [progress EXCEPT !.steps = steps,
                                       !.log_steps = Range(steps),
                                       !.returned = TRUE]
    /\ UNCHANGED <<runVars, handle, cipher, decode, processors, cli>>

NextSteps == AppendStep \/ ReturnSteps

SpecSteps == InitSteps /\ [][NextSteps]_vars

\* the milestones but the last are evenly spaced, `gap` apart, from 0 on,
\* and the total follows the last of them at most one gap later
SpacedUpTo(steps, gap, total_files) ==
    /\ Len(steps) >= 1
    /\ steps[1] = 0
    /\ steps[Len(steps)] = total_files
    /\ \A k \in 1..(Len(steps) - 2) : steps[k + 1] - steps[k] = gap
    /\ Len(steps) >= 2 =>
          /\ steps[Len(steps)] - steps[Len(steps) - 1] > 0
          /\ steps[Len(steps)] - steps[Len(steps) - 1] <= gap

\* 0 and the total are milestones and no milestone is outside 0..total
WithinTotal ==
    /\ 0 \in progress.log_steps
    /\ progress.total_files \in progress.log_steps
    /\ progress.log_steps \subseteq 0..progress.total_files

\* C23 as stated: the milestones are 10% of the total apart below 1000, 5%
\* from 1000 to 9999 and 1% from 10000 on, and they contain 0 and the total
\* and nothing outside 0..total.
C23_PercentSteps ==
    progress.returned =>
        /\ SpacedUpTo(progress.steps, PercentOf(progress.total_files), progress.total_files)
        /\ WithinTotal

\* what the milestones are instead: max(100, 10%) apart below 1000,
\* max(500, 5%) from 1000 to 9999 and max(1000, 1%) from 10000 on, which is
\* 100, 500 and, below a total of 100000, 1000; the set is the one
\* log_progress uses
FlooredSteps ==
    progress.returned =>
        /\ SpacedUpTo(progress.steps,
                      Max(IF progress.total_files < SmallLimit THEN MinSmallStep
                          ELSE IF progress.total_files < MediumLimit THEN MinMediumStep
                          ELSE MinLargeStep,
                          PercentOf(progress.total_files)),
                      progress.total_files)
        /\ (progress.total_files < 100 * MinLargeStep) =>
              progress.interval \in {MinSmallStep, MinMediumStep, MinLargeStep}
        /\ WithinTotal
        /\ progress.log_steps = LogSteps(progress.total_files)

\* ------------------------------------- the Phase B progress counter (C24)
\* Lines 251-263 of _extract_single_file_optimized on their own: every
\* extraction task whose stream completed takes self._lock, adds one to
\* self._extracted_count (a load and a store of the attribute), passes the
\* counter to the progress logger and releases the lock.  The counter was
\* reset by the main thread before the pool started (line 272).
MaxExtractions == 3

InitCounter ==
    /\ RunIdle
    /\ handle = <<>> /\ cipher = <<>> /\ decode = <<>>
    /\ processors = <<>> /\ cli = <<>>
    /\ \E n \in 1..MaxExtractions, verbose \in BOOLEAN :
       \E streamed \in [1..n -> BOOLEAN] :
          progress = [verbose |-> verbose,
                      streamed |-> streamed,
                      at |-> [t \in 1..n |-> "stream"],
                      lock |-> 0,
                      loaded |-> [t \in 1..n |-> 0],
                      extracted_count |-> 0,
                      logged |-> <<>>]

\* lines 237-249 and 260-263: the stream ends; a failed one returns False
\* without touching the counter
EndStream(t) ==
    /\ progress.at[t] = "stream"
    /\ progress' = [progress EXCEPT
                       !.at[t] = IF progress.streamed[t] THEN "acquire" ELSE "returned_false"]
    /\ UNCHANGED <<runVars, handle, cipher, decode, processors, cli>>

\* a counter that every thread may update at any time
LockFree_Always(lock) == TRUE

\* threading.Lock: acquire blocks while another thread holds the lock
LockFree(lock) == lock = 0

\* line 252: with self._lock
Acquire(t) ==
    /\ progress.at[t] = "acquire"
    /\ LockFree(progress.lock)
    /\ progress' = [progress EXCEPT !.lock = t, !.at[t] = "load"]
    /\ UNCHANGED <<runVars, handle, cipher, decode, processors, cli>>

\* line 253, first half: read self._extracted_count
LoadCount(t) ==
    /\ progress.at[t] = "load"
    /\ progress' = [progress EXCEPT !.loaded[t] = progress.extracted_count,
                                    !.at[t] = "store"]
    /\ UNCHANGED <<runVars, handle, cipher, decode, processors, cli>>

\* line 253, second half: write the sum back
StoreCount(t) ==
    /\ progress.at[t] = "store"
    /\ progress' = [progress EXCEPT !.extracted_count = progress.loaded[t] + 1,
                                    !.at[t] = "log"]
    /\ UNCHANGED <<runVars, handle, cipher, decode, processors, cli>>

\* lines 255-256: unless verbose, log_progress(self._extracted_count)
LogCount(t) ==
    /\ progress.at[t] = "log"
    /\ progress' = [progress EXCEPT
                       !.logged = IF progress.verbose THEN @
                                  ELSE Append(@, progress.extracted_count),
                       !.at[t] = "release"]
    /\ UNCHANGED <<runVars, handle, cipher, decode, processors, cli>>

\* the with block is left (the lock is the caller's, or nobody's when the
\* update was made without it), and line 258 returns True
Release(t) ==
    /\ progress.at[t] = "release"
    /\ progress' = [progress EXCEPT !.lock = IF @ = t THEN 0 ELSE @,
                                    !.at[t] = "returned_true"]
    /\ UNCHANGED <<runVars, handle, cipher, decode, processors, cli>>

NextCounter ==
    \/ \E t \in DOMAIN progress.at : EndStream(t)
    \/ \E t \in DOMAIN progress.at : Acquire(t)
    \/ \E t \in DOMAIN progress.at : LoadCount(t)
    \/ \E t \in DOMAIN progress.at : StoreCount(t)
    \/ \E t \in DOMAIN progress.at : LogCount(t)
    \/ \E t \in DOMAIN progress.at : Release(t)

SpecCounter == InitCounter /\ [][NextCounter]_vars

\* the tasks that have written their increment
Incremented == {t \in DOMAIN progress.at : progress.at[t] \in {"log", "release", "returned_true"}}

MaxProcessors == 2

\* entries the processors read: a good name, a length of 0, a header cut
\* off by the end of the file, and a read that raises
SharedEntries ==
    {e \in Entries : e.payload = "ok" /\ e.name \in {NameX, <<>>} /\ e.name_len <= MaxNameLen}

InitProcessors ==
    /\ RunIdle
    /\ handle = <<>> /\ cipher = <<>> /\ decode = <<>> /\ progress = <<>>
    /\ cli = <<>>
    /\ \E a \in SeqsUpTo(SharedEntries, MaxEntries), n \in 1..MaxProcessors :
          processors = [archive |-> a,
                        task |-> [p \in 1..n |-> [i \in 1..Len(a) |-> "queued"]],
                        results |-> [p \in 1..n |-> <<>>],
                        returned |-> [p \in 1..n |-> <<>>]]

\* a pool thread of processor p runs the filename task of entry i
RunTask(p, i) ==
    /\ processors.task[p][i] = "queued"
    /\ processors' = [processors EXCEPT !.task[p][i] = "finished"]
    /\ UNCHANGED <<runVars, handle, cipher, decode, progress, cli>>

\* lines 194-198 in processor p: a finished future is yielded; a None is
\* skipped
CollectTask(p, i) ==
    /\ processors.task[p][i] = "finished"
    /\ processors' = [processors EXCEPT
          !.task[p][i] = "collected",
          !.results[p] = @ \o process_single_filename(processors.archive[i], i - 1)]
    /\ UNCHANGED <<runVars, handle, cipher, decode, progress, cli>>

\* lines 209-217 in processor p: sort and return; <<list>> is the list
ReturnResults(p) ==
    /\ processors.returned[p] = <<>>
    /\ \A i \in DOMAIN processors.task[p] : processors.task[p][i] = "collected"
    /\ processors' = [processors EXCEPT !.returned[p] = <<SortByIndex(processors.results[p])>>]
    /\ UNCHANGED <<runVars, handle, cipher, decode, progress, cli>>

NextProcessors ==
    \/ \E p \in DOMAIN processors.task : \E i \in DOMAIN processors.task[p] : RunTask(p, i)
    \/ \E p \in DOMAIN processors.task : \E i \in DOMAIN processors.task[p] : CollectTask(p, i)
    \/ \E p \in DOMAIN processors.task : ReturnResults(p)

SpecProcessors == InitProcessors /\ [][NextProcessors]_vars

RECURSIVE AloneResult(_, _)
\* what one processor returns for the archive when nothing else runs and
\* its tasks complete in index order
AloneResult(a, k) ==
    IF k > Len(a) THEN <<>>
    ELSE process_single_filename(a[k], k - 1) \o AloneResult(a, k + 1)

\* every processor returns what it returns when run alone
SameAsAlone ==
    \A p \in DOMAIN processors.returned :
        processors.returned[p] # <<>> =>
            processors.returned[p][1] = AloneResult(processors.archive, 1)

\* C25: every processor returns the complete result in index order, the
\* one it returns when run alone: as many results as the archive has
\* entries, result i with index i and a safe name.
C25_CompleteResults ==
    \A p \in DOMAIN processors.returned :
        processors.returned[p] # <<>> =>
            LET list == processors.returned[p][1] IN
            /\ list = AloneResult(processors.archive, 1)
            /\ Len(list) = Len(processors.archive)
            /\ \A k \in DOMAIN list : list[k].index = k - 1 /\ list[k].safe_name # <<>>

\* ------------------------------------- opening a member in Phase B (C26)
\* ipf_zip.open(file_info.zip_info, pwd=get_ipf_password()) (line 239) and
\* the read loop of lines 244-249 for one stored member.  The archive holds
\* the member encrypted: the 12-byte encryption header and the data, both
\* through a cipher keyed with the password.  ZipFile.open tests bit 0 of
\* the entry's general-purpose flags: when it is set it builds a decrypter
\* from pwd, which takes the header; when it is clear it sets pwd to None
\* and every stored byte reaches the output as it is.
\* general-purpose flag words: bit 0 is "encrypted", bit 11 "UTF-8 name"
FlagSamples == {0, 1, 2048, 2049}

\* zinfo.flag_bits & _MASK_ENCRYPTED
IsEncrypted(flag_bits) == flag_bits % 2 = 1

InitOpen ==
    /\ RunIdle
    /\ handle = <<>> /\ decode = <<>> /\ progress = <<>>
    /\ processors = <<>> /\ cli = <<>>
    /\ \E flag_bits \in FlagSamples, data \in SeqsUpTo(ByteSamples, MaxData) :
          cipher = [flag_bits |-> flag_bits,
                    plain |-> data,
                    stored |-> encrypt_data(FreshKeys, EncryptionHeader \o data),
                    opened |-> FALSE,
                    decrypter |-> <<>>,
                    pos |-> 0,
                    written |-> <<>>]

\* line 239: ZipFile.open; <<keys>> is a decrypter, <<>> is none
OpenMember ==
    /\ ~cipher.opened
    /\ LET header == SubSeq(cipher.stored, 1, Len(EncryptionHeader)) IN
       cipher' = [cipher EXCEPT
                     !.opened = TRUE,
                     !.decrypter = IF IsEncrypted(cipher.flag_bits)
                                   THEN <<KeysAfter(FreshKeys, header)>>
                                   ELSE <<>>,
                     !.pos = IF IsEncrypted(cipher.flag_bits) THEN Len(header) ELSE 0]
    /\ UNCHANGED <<runVars, handle, decode, progress, processors, cli>>

\* lines 244-249: the next byte of the member is read and written
ReadMember ==
    /\ cipher.opened
    /\ cipher.pos < Len(cipher.stored)
    /\ LET c == cipher.stored[cipher.pos + 1] IN
       IF cipher.decrypter = <<>>
       THEN cipher' = [cipher EXCEPT !.pos = @ + 1, !.written = Append(@, c)]
       ELSE LET step == DecryptStep(cipher.decrypter[1], c) IN
            cipher' = [cipher EXCEPT !.pos = @ + 1,
                                     !.decrypter = <<step.keys>>,
                                     !.written = Append(@, step.plain)]
    /\ UNCHANGED <<runVars, handle, decode, progress, processors, cli>>

NextOpen == OpenMember \/ ReadMember

SpecOpen == InitOpen /\ [][NextOpen]_vars

\* the member has been read to its end
MemberRead == cipher.opened /\ cipher.pos = Len(cipher.stored)

\* what holds for the entries whose flag bit 0 is set: the bytes written
\* are the member's data, decrypted
DecryptedWhenFlagged ==
    (MemberRead /\ IsEncrypted(cipher.flag_bits)) => cipher.written = cipher.plain

\* C26: whatever bit 0 of the entry's flags is, the payload is decrypted
\* with the password before it is written: the bytes written for a member
\* read to its end are its decrypted data.
C26_DecryptRegardlessOfFlag ==
    MemberRead => cipher.written = cipher.plain

\* ------------------------------------------------------- main() (C27)
\* main() from line 405 on: sys.argv[1] is the archive, and the arguments
\* after it are parsed one per step.  An argument is text, a sequence of
\* code points.
MaxArgs == 2

\* "0", "4", "-1", "out", "-v" and the superscript two
ArgZero == <<48>>
ArgFour == <<52>>
ArgMinusOne == <<45, 49>>
ArgOut == <<111, 117, 116>>
ArgV == <<45, 118>>
ArgSquared == <<178>>
ArgSamples == {ArgZero, ArgFour, ArgMinusOne, ArgOut, ArgV, ArgSquared}

\* "extracted_optimized", the output directory when none is given
DefaultOutputDir ==
    <<101, 120, 116, 114, 97, 99, 116, 101, 100, 95,
      111, 112, 116, 105, 109, 105, 122, 101, 100>>

\* "--verbose"
ArgVerbose == <<45, 45, 118, 101, 114, 98, 111, 115, 101>>

\* a decimal digit of ASCII, which int() converts
IsDecimal(c) == c >= 48 /\ c <= 57

\* str.isdigit(): not empty and every character a digit; the superscripts
\* one, two and three count as digits although they are not decimal
IsDigit(arg) ==
    /\ arg # <<>>
    /\ \A k \in 1..Len(arg) : IsDecimal(arg[k]) \/ arg[k] \in {178, 179, 185}

RECURSIVE IntOf(_)
\* int(arg) for decimal digits
IntOf(arg) ==
    IF arg = <<>> THEN 0
    ELSE 10 * IntOf(SubSeq(arg, 1, Len(arg) - 1)) + (arg[Len(arg)] - 48)

\* lines 405-411
InitMain ==
    /\ RunIdle
    /\ handle = <<>> /\ cipher = <<>> /\ decode = <<>> /\ progress = <<>>
    /\ processors = <<>>
    /\ \E argv \in SeqsUpTo(ArgSamples, MaxArgs) :
          cli = [argv |-> argv,
                 i |-> 1,
                 output_dir |-> DefaultOutputDir,
                 max_workers |-> <<>>,
                 verbose |-> FALSE,
                 stage |-> "parse",
                 started |-> FALSE,
                 workers |-> 0,
                 message |-> "none",
                 status |-> -1]

\* lines 412-420: one turn of the while loop; int() raises ValueError for
\* a digit that is not decimal, and nothing in main catches it
ParseArg ==
    /\ cli.stage = "parse"
    /\ cli.i <= Len(cli.argv)
    /\ LET arg == cli.argv[cli.i] IN
       IF arg \in {ArgVerbose, ArgV}
       THEN cli' = [cli EXCEPT !.verbose = TRUE, !.i = @ + 1]
       ELSE IF IsDigit(arg)
            THEN IF \A k \in 1..Len(arg) : IsDecimal(arg[k])
                 THEN cli' = [cli EXCEPT !.max_workers = <<IntOf(arg)>>, !.i = @ + 1]
                 ELSE cli' = [cli EXCEPT !.stage = "exit", !.message = "ValueError",
                                         !.status = 1]
            ELSE cli' = [cli EXCEPT !.output_dir = arg, !.i = @ + 1]
    /\ UNCHANGED <<runVars, handle, cipher, decode, progress, processors>>

\* the truth value of max_workers: None and 0 are false
Truthy(max_workers_arg) == max_workers_arg # <<>> /\ max_workers_arg[1] # 0

\* lines 422-424: if max_workers and max_workers <= 0
CheckWorkers ==
    /\ cli.stage = "parse"
    /\ cli.i > Len(cli.argv)
    /\ IF Truthy(cli.max_workers) /\ cli.max_workers[1] <= 0
       THEN cli' = [cli EXCEPT !.stage = "exit", !.status = 1,
                               !.message = "max_workers must be a positive integer"]
       ELSE cli' = [cli EXCEPT !.stage = "exists"]
    /\ UNCHANGED <<runVars, handle, cipher, decode, progress, processors>>

\* lines 426-430, 91 and 225: the archive must exist; then the extraction
\* starts with the worker count it derives from the argument
StartExtraction ==
    /\ cli.stage = "exists"
    /\ \E exists \in BOOLEAN, cpus \in CpuCounts :
          IF exists
          THEN cli' = [cli EXCEPT !.stage = "run", !.started = TRUE,
                                  !.workers = EffectiveWorkers(cli.max_workers, cpus)]
          ELSE cli' = [cli EXCEPT !.stage = "exit", !.status = 1,
                                  !.message = "IPF file not found"]
    /\ UNCHANGED <<runVars, handle, cipher, decode, progress, processors>>

\* lines 430-431: sys.exit(0 if success else 1)
Exit ==
    /\ cli.stage = "run"
    /\ \E ok \in BOOLEAN :
          cli' = [cli EXCEPT !.stage = "exit", !.status = IF ok THEN 0 ELSE 1]
    /\ UNCHANGED <<runVars, handle, cipher, decode, progress, processors>>

NextMain == ParseArg \/ CheckWorkers \/ StartExtraction \/ Exit

SpecMain == InitMain /\ [][NextMain]_vars

\* the arguments have been parsed and the worker count has been checked
WorkersChecked == cli.stage \in {"exists", "run"} \/ (cli.stage = "exit" /\ cli.message # "ValueError")

\* the check of line 422 never fires: a count it would reject is false
ErrorBranchDead == cli.message # "max_workers must be a positive integer"

\* C27: a worker count that is not a positive integer, 0 in particular, is
\* rejected: main prints "max_workers must be a positive integer" and exits
\* with status 1, and no extraction is started with the default count.
C27_RejectsZeroWorkers ==
    (WorkersChecked /\ cli.max_workers # <<>> /\ cli.max_workers[1] <= 0) =>
        /\ cli.stage = "exit"
        /\ cli.status = 1
        /\ cli.message = "max_workers must be a positive integer"
        /\ ~cli.started

\* ----------------------------------------------------------------- C28
\* "file_000N.bin" for an index N below 10, written out
FileBin(index) == <<102, 105, 108, 101, 95, 48, 48, 48, 48 + index, 46, 98, 105, 110>>

\* the results process_all_filenames returned for the entry with this index
ResultsOf(index) ==
    {k \in DOMAIN processed_files : processed_files[k].index = index}

\* C28: an entry whose filename task raised (the archive could not be
\* reopened, a read failed) is in the result of Phase A once, without a
\* decrypted name and under the name file_NNNN.bin of its own index; the
\* results of the other entries are what they are without the exception.
C28_ExceptionKeepsEntry ==
    PhaseAReturned =>
        \A i \in 1..Len(archive) :
            IF archive[i].read = "exc"
            THEN /\ Cardinality(ResultsOf(i - 1)) = 1
                 /\ \A k \in ResultsOf(i - 1) :
                       /\ processed_files[k].decrypted_name = <<>>
                       /\ processed_files[k].safe_name = FileBin(i - 1)
            ELSE <<>> \o [k \in 1..Cardinality(ResultsOf(i - 1)) |->
                             processed_files[CHOOSE r \in ResultsOf(i - 1) : TRUE]]
                     = process_single_filename(archive[i], i - 1)

\* Phase A returned for an archive whose first entry raised and whose
\* second entry is x.dds: both are in the result, each under its own name
C28_Witness ==
    /\ PhaseAReturned
    /\ Len(archive) = 2
    /\ archive[1].read = "exc"
    /\ archive[2].name = NameX
    /\ Len(processed_files) = 2
    /\ processed_files[1] = FileInfo(<<>>, FileBin(0), 0)
    /\ processed_files[2] = FileInfo(NameX, NameX, 1)

\* ----------------------------------------------------------------- C29
\* every byte is a printable character of ASCII, 0x20..0x7E
AllPrintableAscii(b) == \A k \in 1..Len(b) : b[k] >= 32 /\ b[k] <= 126

\* C29: ISO-8859-1, Windows-1252 and ASCII accept nothing that UTF-8
\* rejected, so no attempt after the first is ever accepted; and a name
\* accepted by one of the four encodings is the decrypted bytes themselves,
\* all of them in 0x20..0x7E.
C29_OnlyAsciiAccepted ==
    /\ \A k \in 2..Len(Encodings) :
          (decode.tried # <<>> /\ Accepted(Encodings[k], decode.bytes))
             => Accepted(decode.tried[1], decode.bytes)
    /\ \A i \in 2..Len(decode.tried) :
          decode.tried[i] # "cp932" => ~Accepted(decode.tried[i], decode.bytes)
    /\ (decode.decoded_name # <<>> /\ "cp932" \notin Range(decode.tried)) =>
          /\ decode.tried = <<"utf-8">>
          /\ AllPrintableAscii(decode.bytes)
          /\ decode.decoded_name = decode.bytes

\* the two bytes of a UTF-8 e-acute: UTF-8 decoded them and the filter
\* rejected the character, and the three encodings after it were tried and
\* accepted nothing either
C29_Witness ==
    /\ decode.bytes = <<195, 169>>
    /\ decode.stage = "fallback"
    /\ decode.tried = Encodings
    /\ TryDecode("utf-8", decode.bytes).ok
    /\ TryDecode("latin-1", decode.bytes).ok
    /\ TryDecode("cp1252", decode.bytes).ok
    /\ decode.decoded_name = <<>>

\* ----------------------------------------------------------------- C30
\* the name entry t gets when the list ends with it
NameInPrefix(t) ==
    AssignPaths(SubSeq(processed_files, 1, t), 1, {})[t].file_info.safe_name

\* the names with a suffix that the loop made up before it came to entry t
SuffixedBefore(t) ==
    {extraction_tasks[u].file_info.safe_name :
        u \in {v \in 1..(t - 1) :
                  extraction_tasks[v].file_info.safe_name # processed_files[v].safe_name}}

\* C30: the name given to an entry is decided by the safe names of the
\* entries up to it, in index order: it is the name the entry gets when the
\* list ends with it, and no later iteration changes it; and an entry whose
\* safe name occurs once in the list gets a name that no earlier entry was
\* given with a suffix.
C30_PrefixStable ==
    /\ [](\A t \in DOMAIN extraction_tasks :
             /\ extraction_tasks[t].file_info.safe_name = NameInPrefix(t)
             /\ extraction_tasks[t].output_path = JoinPath(OutputDir, NameInPrefix(t))
             /\ (\A k \in DOMAIN processed_files :
                    k # t => processed_files[k].safe_name # processed_files[t].safe_name)
                   => extraction_tasks[t].file_info.safe_name \notin SuffixedBefore(t))
    /\ [][\A t \in DOMAIN extraction_tasks :
             /\ t \in DOMAIN extraction_tasks'
             /\ extraction_tasks'[t] = extraction_tasks[t]]_vars

\* x.dds, x.dds, x_1.dds: the second entry was given x_1.dds, and the third,
\* whose safe name occurs once, was given x_1_1.dds
C30_Witness ==
    /\ pc = "reopen"
    /\ Len(extraction_tasks) = 3
    /\ processed_files[1].safe_name = NameX
    /\ processed_files[2].safe_name = NameX
    /\ processed_files[3].safe_name = NameX1
    /\ extraction_tasks[2].file_info.safe_name = NameX1
    /\ extraction_tasks[3].file_info.safe_name = NameX11

====
